---- MODULE Spec2Model ----
(***************************************************************************)
(* ThumbnailTextExtractor: the Fetcher -> Orchestrator -> Processor ->     *)
(* Uploader pipeline over the shared stage volumes and the file_contents   *)
(* table.  Files are modelled by their existence and by the part of their  *)
(* content the components branch on; every filesystem or database call of  *)
(* a component is one step, so that the other components interleave with   *)
(* it the way separate processes do.                                       *)
(***************************************************************************)
EXTENDS Integers, FiniteSets, Sequences, TLC

\* ---------------------------------------------------------------- bounds
\* claims of one row the model follows, with one Orchestrator worker and with several
MaxClaims == 4
MaxClaimsWorkers == 1
\* rows of file_contents in the backpressure specification
MaxRows == 11
\* characters of an extracted text after its run of padding
MaxTail == 2
\* width and height of the images given to create_cover_thumbnail
MaxSide == 8
\* jobs, markers or requests waiting for one service
MaxItems == 2
\* UPDATE statements followed column by column
MaxClock == 2
\* runs of content in the arrays given to find_gap_splits
MaxRuns == 3
\* DB and blob-store calls followed in the error specification
MaxCalls == 4

\* ------------------------------------------------------ program constants
MAX_RETRIES == 3
BACKPRESSURE == 10
MAX_THUMBNAIL_SIZE == 1000000
MAX_TEXT_LENGTH == 51200

\* the file_contents rows the model follows (content hashes); 0 is "no hash"
Hashes == {1}
\* the rows of the backpressure specification, numbered oldest first
QueueHashes == 1..MaxRows
AllWorkers == {"w1", "w2"}

VARIABLES
    db,          \* file_contents rows: [processing_status, try_count]
    ext,         \* extension of the row's full_path: "dwg" or "jpg"
    claims,      \* history: how often claim_pending_file_content returned the row
    runs,        \* history: Processor containers started since the last claim
    marks,       \* history: status markers written since the last claim
    updates,     \* history: DB result updates applied since the last claim
    binF,        \* input/{hash}.bin: "none", "partial", "full"
    jsonF,       \* input/{hash}.json: a file record (NoFile, EmptyFile, MetaFile)
    ready,       \* status/{hash}.ready exists
    doneM,       \* status/{hash}.done: NoFile or the metadata written into it
    failedM,     \* status/{hash}.failed exists
    vol,         \* job volume job-{hash[:12]}: [exists, result, thumb]
    outResult,   \* output/{hash}.result.json: "none", "ok" (success), "fail", "bad"
    outThumb,    \* output/{hash}.thumbnail.png exists
    containers,  \* Processor containers that exist for the hash
    fPc, fJob,   \* Fetcher: position and the claimed job
    workers,     \* the Orchestrator workers that run
    oPc, oList, oHash, oMeta, oQcad, oExit, oMarker,   \* per Orchestrator worker
    uPc, uHash, uMeta,                                 \* Uploader
    \* process_done after result.json was read with success = true:
    sPc,         \* position: "off", "start", "upload", "text", "db", "end"
    sResult,     \* result.json: [thumbnail_file, extracted_text]
    sThumb,      \* output/{hash}.thumbnail.png as the Processor left it
    sSanitized,  \* output/{hash}.sanitized.png
    sPath,       \* thumbnail_storage_path is set (not None)
    sText,       \* extracted_text (NoText for None)
    sBlob,       \* the object sent to the thumbnail bucket
    sDb,         \* what update_db_success wrote: [thumbnail_path, extracted_text]
    \* one run of process_job.py in its container:
    pPc,         \* position of main: "off", "start", "process", "write", "exited"
    pJob,        \* /work/job.json: "none", "bad" (no JSON document), "full"
    pInput,      \* /work/input.bin exists
    pExt,        \* original_extension, by the branch of process_file it takes
    pSrc,        \* the input file, as the libraries process_file calls read it
    pThumb,      \* /work/thumbnail.png
    pResult,     \* /work/result.json
    pExit,       \* exit code of the process; -1 while it runs
    \* one call of create_cover_thumbnail:
    gPc,         \* position: "off", "call", "returned", "raised"
    gImg,        \* img.size: [width, height]
    gTarget,     \* the arguments width, height: [width, height]
    gCrop,       \* THUMBNAIL_CROP_POSITION
    gBox,        \* the box given to img.crop: [left, top, right, bottom]
    gOut,        \* size of the returned image: [width, height]
    \* the run loops of the four long-lived services under SIGINT/SIGTERM:
    running,     \* self.running of each service
    lPc,         \* position of each service in run
    lList,       \* entries of the current glob listing not yet visited
    lWaiting,    \* items (jobs, markers, requests) waiting for each service
    lAfter,      \* history: items each service started after its signal
    \* the DB connection of Fetcher and Uploader under DB and blob-store errors:
    db_conn,     \* self.db_conn: "none", "open", "broken" (connection lost)
    ePc,         \* position of each component in its loop
    eLast,       \* history: the last call: [fn, error, opened]
    eCalls,      \* history: calls made so far
    \* the OCR exchange volume, per request id:
    xImage,      \* {id}.png exists
    xRequest,    \* {id}.request: "none", "empty" (opened, not written), "full"
    xResult,     \* {id}.result: [st, keys], st "none", "partial" or "full"
    xFailed,     \* {id}.failed: length of its text, -1 when absent
    kPc,         \* OCRWatcher: position in run / process_request
    kList,       \* OCRWatcher: request_files not yet visited
    kId,         \* OCRWatcher: job_id of the request in process_request
    kErr,        \* OCRWatcher: len(str(e)) of the exception caught
    kWrote,      \* history: the files process_request wrote in this call
    qPc,         \* request_ocr (the Processor side) per id: position
    \* the CAD exchange volume, per conversion id, during one job:
    dDwg,        \* {id}.{ext} exists
    dConvert,    \* {id}.convert: "none", "empty" (opened, not written), "full"
    dPdf,        \* {id}.pdf exists
    dDone,       \* {id}.done exists
    dFailed,     \* {id}.failed exists
    wPc,         \* QCAD watcher script: position
    wList,       \* QCAD watcher script: files of the for loop not yet visited
    wId,         \* QCAD watcher script: job_id of the file it handles
    wExit,       \* QCAD watcher script: exit status of dwg2pdf
    wMade,       \* history: the markers the script created for wId
    vPc,         \* convert_dwg_to_pdf per id: position
    vRet,        \* convert_dwg_to_pdf per id: "none" (None) or "pdf"
    vSaw,        \* history: what ended the wait: "done", "failed", "timeout"
    jPc,         \* process_job around the Processor: position
    jHash,       \* content_hash[:12] of the job
    \* the Processor container process_job spawns:
    nPc,         \* position: "off", "idle", "spawned", "requested"
    nEnv,        \* PROCESSOR_MEMORY, PROCESSOR_CPUS (in tenths), PROCESSOR_RUNTIME
    nJob,        \* content_hash[:12] of the job the container is for
    nKwargs,     \* the run_kwargs given to docker.containers.run
    nOcr,        \* where the container's OCR request went: "none",
                 \* "ocr_volume" (the sidecar sees it), "raised"
    \* one call of find_gap_splits:
    hPc,         \* position: "off", "call", "returned"
    hArr,        \* has_content, as runs [v, n] of n equal entries v
    hSplits,     \* the list returned
    \* the columns of file_contents the Uploader's two UPDATE statements name:
    tRows,       \* rows by content_hash
    tNow,        \* datetime.now(timezone.utc), a tick per statement
    tLast,       \* history: the last statement and its parameters
    \* the output volume during the copy and rename of process_job; a file
    \* is the hash of the job whose Processor run wrote it, 0 when absent:
    zWork,       \* the files in /work of each job's volume after its run
    zFixed,      \* output/result.json, thumbnail.png, processor.log
    zOut,        \* output/{hash}.result.json, .thumbnail.png, .log
    zReady,      \* the hashes whose status/{hash}.ready exists
    zPc,         \* per Orchestrator worker: position in process_job
    zHash,       \* per Orchestrator worker: content_hash
    zTodo        \* per Orchestrator worker: the files still to copy or rename

dbVars == <<db, ext, claims, runs, marks, updates>>
inVars == <<binF, jsonF, ready>>
statusVars == <<doneM, failedM>>
outVars == <<outResult, outThumb>>
fVars == <<fPc, fJob>>
oVars == <<workers, oPc, oList, oHash, oMeta, oQcad, oExit, oMarker>>
uVars == <<uPc, uHash, uMeta>>
sVars == <<sPc, sResult, sThumb, sSanitized, sPath, sText, sBlob, sDb>>
pipeVars == <<dbVars, inVars, statusVars, vol, outVars, containers, fVars, oVars, uVars>>
pVars == <<pPc, pJob, pInput, pExt, pSrc, pThumb, pResult, pExit>>
gVars == <<gPc, gImg, gTarget, gCrop, gBox, gOut>>
lVars == <<running, lPc, lList, lWaiting, lAfter>>
eVars == <<db_conn, ePc, eLast, eCalls>>
rVars == <<xImage, xRequest, xResult, xFailed, kPc, kList, kId, kErr, kWrote, qPc>>
cVars == <<dDwg, dConvert, dPdf, dDone, dFailed, wPc, wList, wId, wExit, wMade,
           vPc, vRet, vSaw, jPc, jHash>>
nVars == <<nPc, nEnv, nJob, nKwargs, nOcr>>
hVars == <<hPc, hArr, hSplits>>
tVars == <<tRows, tNow, tLast>>
zVars == <<zWork, zFixed, zOut, zReady, zPc, zHash, zTodo>>
yVars == <<eVars, rVars, cVars, nVars, hVars, tVars, zVars>>
xVars == <<pVars, gVars, lVars, yVars>>
vars == <<pipeVars, sVars, xVars>>
\* everything but the DB connections
eOthers == <<pipeVars, sVars, pVars, gVars, lVars, rVars, cVars, nVars, hVars, tVars, zVars>>
\* everything but the OCR exchange
rOthers == <<pipeVars, sVars, pVars, gVars, lVars, eVars, cVars, nVars, hVars, tVars, zVars>>
\* everything but the CAD exchange
cOthers == <<pipeVars, sVars, pVars, gVars, lVars, eVars, rVars, nVars, hVars, tVars, zVars>>
\* everything but the call of find_gap_splits
hOthers == <<pipeVars, sVars, pVars, gVars, lVars, eVars, rVars, cVars, nVars, tVars, zVars>>
\* everything but the file_contents columns
tOthers == <<pipeVars, sVars, pVars, gVars, lVars, eVars, rVars, cVars, nVars, hVars, zVars>>
\* everything but the spawned container
nOthers == <<pipeVars, sVars, pVars, gVars, lVars, eVars, rVars, cVars, hVars, tVars, zVars>>
\* everything but the output volume under the copy of results
zOthers == <<pipeVars, sVars, pVars, gVars, lVars, eVars, rVars, cVars, nVars, hVars, tVars>>

\* ------------------------------------------------------------ file values
NoFile == [st |-> "none", try_count |-> 0]
EmptyFile == [st |-> "empty", try_count |-> 0]
MetaFile(t) == [st |-> "full", try_count |-> t]
EmptyDict == [st |-> "dict", try_count |-> 0]
\* meta.get("try_count", 0)
MetaTryCount(m) == IF m.st = "full" THEN m.try_count ELSE 0

NoVolume == [exists |-> FALSE, result |-> "none", thumb |-> FALSE]
NoJob == [content_hash |-> 0, try_count |-> 0]

\* a text (Python str, a sequence of code points): pad copies of PadChar
\* followed by the code points of tail; NoText is None
PadChar == 65
NoText == [pad |-> -1, tail |-> <<>>]
TextLen(x) == x.pad + Len(x.tail)

\* an image file: what Image.open decodes it as ("garbage": not an image),
\* its pixel content, whether it carries data besides the pixels, its size in
\* bytes; NoImage is a missing file
NoImage == [format |-> "none", mode |-> "none", pixels |-> "none", hidden |-> FALSE, size |-> 0]

\* what update_db_success wrote; NoWrite before it or when it returned False
NoWrite == [written |-> FALSE, thumbnail_path |-> FALSE, extracted_text |-> NoText]

\* a text inside the Processor (Python str): a sequence of runs [c, n], n
\* copies of the code point c; <<>> is ""; None is None
None == <<[c |-> -1, n |-> 0]>>

\* the dict request_ocr returns, with the keys the Processor reads; NoOcr is
\* None (no answer, a failure, a timeout).  quality is round(quality, 3) of
\* the sidecar, counted in thousandths
NoOcr == [text |-> None, quality |-> -1]

\* an input file the Processor was not given
NoSource == [text |-> None, page1 |-> None, ocr1 |-> NoOcr, ocr_all |-> <<>>,
             thumb |-> NoImage, conv |-> FALSE, raises |-> FALSE]

\* /work/result.json: st is "none" (no file), "bad" (a file that is no JSON
\* document) or "full" (the dict main dumped)
NoResultFile == [st |-> "none", success |-> FALSE, thumbnail_file |-> FALSE,
                 extracted_text |-> None, error |-> FALSE]

\* the long-lived services
Services == {"fetcher", "orchestrator", "uploader", "ocr"}

\* the components that hold a DB connection
Components == {"fetcher", "uploader"}
\* the OCR request ids followed (uuid prefixes); 0 is "no id"
Ids == {1, 2}
\* SQL NULL
NULL == "NULL"
\* the content hashes of the rows of file_contents followed column by column
RowKeys == {1, 2}
\* a row nothing was stored in
NoRow == [processing_status |-> "pending", try_count |-> 0, thumbnail_path |-> NULL,
          thumbnail_generated_at |-> NULL, extracted_text |-> NULL,
          last_status_change |-> NULL]
\* no statement was executed
NoStatement == [fn |-> "none", content_hash |-> 0, thumbnail_path |-> NULL,
                extracted_text |-> NULL, try_count |-> 0]
\* no container was started
NoKwargs == [network_mode |-> "", read_only |-> FALSE, mem_limit |-> "",
             nano_cpus |-> 0, pids_limit |-> 0, volumes |-> {}, tmpfs |-> {},
             runtime |-> ""]
\* {id}.result does not exist
NoResult == [st |-> "none", keys |-> {}]
\* no call was made yet
\* the jobs followed through the copy of their results
OutHashes == {1, 2}

\* result.json, thumbnail.png, processor.log
OutFiles == {"result", "thumb", "log"}

NoCall == [fn |-> "none", error |-> "none", opened |-> FALSE]

\* saturating history counters
Bump(n) == IF n < 2 THEN n + 1 ELSE n

\* ------------------------------------------------------------------- Init
\* no claim of the rows H was followed yet
InitHistory(H) ==
    /\ claims = [h \in H |-> 0]
    /\ runs = [h \in H |-> 0]
    /\ marks = [h \in H |-> 0]
    /\ updates = [h \in H |-> 0]

\* empty stage volumes
InitVolumes(H) ==
    /\ binF = [h \in H |-> "none"]
    /\ jsonF = [h \in H |-> NoFile]
    /\ ready = [h \in H |-> FALSE]
    /\ doneM = [h \in H |-> NoFile]
    /\ failedM = [h \in H |-> FALSE]
    /\ vol = [h \in H |-> NoVolume]
    /\ outResult = [h \in H |-> "none"]
    /\ outThumb = [h \in H |-> FALSE]
    /\ containers = [h \in H |-> 0]

\* the rows H of file_contents, all pending, and empty stage volumes
InitRows(H) ==
    /\ db = [h \in H |-> [processing_status |-> "pending", try_count |-> 0]]
    /\ InitHistory(H)
    /\ InitVolumes(H)

\* Fetcher and Orchestrator workers before their first tick
InitFeeders ==
    /\ fPc = "idle"
    /\ fJob = NoJob
    /\ oPc = [w \in AllWorkers |-> "idle"]
    /\ oList = [w \in AllWorkers |-> {}]
    /\ oHash = [w \in AllWorkers |-> 0]
    /\ oMeta = [w \in AllWorkers |-> EmptyDict]
    /\ oQcad = [w \in AllWorkers |-> FALSE]
    /\ oExit = [w \in AllWorkers |-> 0]
    /\ oMarker = [w \in AllWorkers |-> "none"]

\* Fetcher, Orchestrator workers and Uploader before their first tick
InitProcs ==
    /\ InitFeeders
    /\ uPc = "idle"
    /\ uHash = 0
    /\ uMeta = EmptyDict

\* no result.json content is followed
InitNoResult ==
    /\ sPc = "off"
    /\ sResult = [thumbnail_file |-> FALSE, extracted_text |-> NoText]
    /\ sThumb = NoImage
    /\ sSanitized = NoImage
    /\ sPath = FALSE
    /\ sText = NoText
    /\ sBlob = NoImage
    /\ sDb = NoWrite

\* no Processor run is followed
InitNoProcessor ==
    /\ pPc = "off"
    /\ pJob = "none"
    /\ pInput = FALSE
    /\ pExt = "none"
    /\ pSrc = NoSource
    /\ pThumb = NoImage
    /\ pResult = NoResultFile
    /\ pExit = -1

\* no call of create_cover_thumbnail is followed
InitNoCover ==
    /\ gPc = "off"
    /\ gImg = [width |-> 0, height |-> 0]
    /\ gTarget = [width |-> 0, height |-> 0]
    /\ gCrop = "top"
    /\ gBox = [left |-> 0, top |-> 0, right |-> 0, bottom |-> 0]
    /\ gOut = [width |-> 0, height |-> 0]

\* no signal is followed
InitNoSignal ==
    /\ running = [p \in Services |-> TRUE]
    /\ lPc = [p \in Services |-> "off"]
    /\ lList = [p \in Services |-> 0]
    /\ lWaiting = [p \in Services |-> 0]
    /\ lAfter = [p \in Services |-> 0]

\* no DB connection is followed
InitNoErrors ==
    /\ db_conn = [c \in Components |-> "none"]
    /\ ePc = [c \in Components |-> "off"]
    /\ eLast = [c \in Components |-> NoCall]
    /\ eCalls = 0

\* an empty OCR exchange volume
InitExchange ==
    /\ xImage = [i \in Ids |-> FALSE]
    /\ xRequest = [i \in Ids |-> "none"]
    /\ xResult = [i \in Ids |-> NoResult]
    /\ xFailed = [i \in Ids |-> -1]
    /\ kList = {}
    /\ kId = 0
    /\ kErr = 0
    /\ kWrote = {}

\* no OCR request is followed
InitNoRequest ==
    /\ InitExchange
    /\ kPc = "off"
    /\ qPc = [i \in Ids |-> "off"]

\* an empty CAD exchange volume
InitCadExchange ==
    /\ dDwg = [i \in Ids |-> FALSE]
    /\ dConvert = [i \in Ids |-> "none"]
    /\ dPdf = [i \in Ids |-> FALSE]
    /\ dDone = [i \in Ids |-> FALSE]
    /\ dFailed = [i \in Ids |-> FALSE]
    /\ wList = {}
    /\ wId = 0
    /\ wExit = 0
    /\ wMade = {}
    /\ vRet = [i \in Ids |-> "none"]
    /\ vSaw = [i \in Ids |-> "none"]

\* no DWG conversion is followed
InitNoCad ==
    /\ InitCadExchange
    /\ wPc = "off"
    /\ vPc = [i \in Ids |-> "off"]
    /\ jPc = "off"
    /\ jHash = <<>>

\* no spawned container is followed
InitNoSpawn ==
    /\ nPc = "off"
    /\ nEnv = [memory |-> "2g", cpus |-> 20, runtime |-> "runsc"]
    /\ nJob = <<>>
    /\ nKwargs = NoKwargs
    /\ nOcr = "none"

\* no call of find_gap_splits is followed
InitNoGaps ==
    /\ hPc = "off"
    /\ hArr = <<>>
    /\ hSplits = <<>>

\* no UPDATE statement is followed
InitNoColumns ==
    /\ tRows = [h \in RowKeys |-> NoRow]
    /\ tNow = 0
    /\ tLast = NoStatement

\* no copy of results is followed
InitNoOutput ==
    /\ zWork = [h \in OutHashes |-> {}]
    /\ zFixed = [f \in OutFiles |-> 0]
    /\ zOut = [h \in OutHashes |-> [f \in OutFiles |-> 0]]
    /\ zReady = {}
    /\ zPc = [w \in AllWorkers |-> "off"]
    /\ zHash = [w \in AllWorkers |-> 0]
    /\ zTodo = [w \in AllWorkers |-> <<>>]

\* the parts only their own specifications follow are at rest
InitNoExtras ==
    /\ InitNoErrors
    /\ InitNoRequest
    /\ InitNoCad
    /\ InitNoSpawn
    /\ InitNoGaps
    /\ InitNoColumns
    /\ InitNoOutput

InitCommon ==
    /\ InitRows(Hashes)
    /\ ext \in [Hashes -> {"dwg", "jpg"}]
    /\ InitProcs
    /\ InitNoResult
    /\ InitNoProcessor
    /\ InitNoCover
    /\ InitNoSignal
    /\ InitNoExtras

\* one Orchestrator process (the deployment of the compose file)
Init == InitCommon /\ workers = {"w1"}

\* ---------------------------------------------------------------- Fetcher
\* check_pending_jobs: len(glob("*.ready"))
check_pending_jobs == Cardinality({h \in DOMAIN ready : ready[h]})

ClaimCap == IF Cardinality(workers) = 1 THEN MaxClaims ELSE MaxClaimsWorkers

\* claim_pending_file_content(1): one pending row, the oldest, becomes indexing
\* and is returned
claim_pending_file_content(h) ==
    /\ db[h].processing_status = "pending"
    /\ \A g \in DOMAIN db : db[g].processing_status = "pending" => h <= g
    /\ db' = [db EXCEPT ![h].processing_status = "indexing"]

\* mutant of claim_job: the backpressure check is left out
claim_job_unchecked ==
    /\ fPc = "idle"
    /\ \E h \in DOMAIN db :
        /\ claims[h] < ClaimCap
        /\ claim_pending_file_content(h)
        /\ fJob' = [content_hash |-> h, try_count |-> db[h].try_count]
        /\ claims' = [claims EXCEPT ![h] = @ + 1]
        /\ runs' = [runs EXCEPT ![h] = 0]
        /\ marks' = [marks EXCEPT ![h] = 0]
        /\ updates' = [updates EXCEPT ![h] = 0]
    /\ fPc' = "download"
    /\ UNCHANGED <<xVars, sVars, ext, inVars, statusVars, vol, outVars, containers, oVars, uVars>>

\* Fetcher.run, one tick with a job: backpressure check, then claim_job
claim_job ==
    /\ fPc = "idle"
    /\ check_pending_jobs < BACKPRESSURE
    /\ \E h \in DOMAIN db :
        /\ claims[h] < ClaimCap
        /\ claim_pending_file_content(h)
        /\ fJob' = [content_hash |-> h, try_count |-> db[h].try_count]
        /\ claims' = [claims EXCEPT ![h] = @ + 1]
        /\ runs' = [runs EXCEPT ![h] = 0]
        /\ marks' = [marks EXCEPT ![h] = 0]
        /\ updates' = [updates EXCEPT ![h] = 0]
    /\ fPc' = "download"
    /\ UNCHANGED <<xVars, sVars, ext, inVars, statusVars, vol, outVars, containers, oVars, uVars>>

\* download_file: open(file_path, "wb") after raise_for_status
download_open ==
    /\ fPc = "download"
    /\ binF' = [binF EXCEPT ![fJob.content_hash] = "partial"]
    /\ fPc' = "stream"
    /\ UNCHANGED <<xVars, sVars, dbVars, jsonF, ready, statusVars, vol, outVars, containers, fJob, oVars, uVars>>

\* download_file: the last chunk is written and the file closed; a file
\* unlinked while it was open stays absent (the chunks go to the open handle)
download_stream ==
    /\ fPc = "stream"
    /\ binF' = [binF EXCEPT ![fJob.content_hash] = IF @ = "none" THEN @ ELSE "full"]
    /\ fPc' = "meta"
    /\ UNCHANGED <<xVars, sVars, dbVars, jsonF, ready, statusVars, vol, outVars, containers, fJob, oVars, uVars>>

\* meta_path.write_text: open(.., "w") creates or truncates the file
write_meta_open ==
    /\ fPc = "meta"
    /\ jsonF' = [jsonF EXCEPT ![fJob.content_hash] = EmptyFile]
    /\ fPc' = "meta_write"
    /\ UNCHANGED <<xVars, sVars, dbVars, binF, ready, statusVars, vol, outVars, containers, fJob, oVars, uVars>>

\* meta_path.write_text: json.dumps(meta) is written and the file closed; a
\* file unlinked since it was opened stays absent
write_meta ==
    /\ fPc = "meta_write"
    /\ jsonF' = [jsonF EXCEPT ![fJob.content_hash] =
                    IF @.st = "none" THEN @ ELSE MetaFile(fJob.try_count)]
    /\ fPc' = "ready"
    /\ UNCHANGED <<xVars, sVars, dbVars, binF, ready, statusVars, vol, outVars, containers, fJob, oVars, uVars>>

\* ready_path.touch(); return True
touch_ready ==
    /\ fPc = "ready"
    /\ ready' = [ready EXCEPT ![fJob.content_hash] = TRUE]
    /\ fPc' = "idle"
    /\ fJob' = NoJob
    /\ UNCHANGED <<xVars, sVars, dbVars, binF, jsonF, statusVars, vol, outVars, containers, oVars, uVars>>

\* download_file: any exception inside the try (HTTP error, I/O error):
\* logged, return False; the files written so far stay, the row stays indexing
download_failed ==
    /\ fPc \in {"download", "stream", "meta", "meta_write", "ready"}
    /\ fPc' = "idle"
    /\ fJob' = NoJob
    /\ UNCHANGED <<xVars, sVars, dbVars, inVars, statusVars, vol, outVars, containers, oVars, uVars>>


\* ----------------------------------------------------------- Orchestrator
\* needs_qcad: the suffix of original_filename is .dwg or .dxf
needs_qcad(h) == ext[h] = "dwg"

\* what a Processor run leaves in /work: [result, thumb, exit]; exit is
\* exit_code (0, non-zero as 1) or -1 when container.wait raised (timeout).
\* process_job.py writes result.json last and exits 0 only after writing it;
\* result_file.write_text creates the file before the text is in it, so a
\* run that is killed or fails inside it leaves a result.json that is no
\* JSON document ("bad").
ProcessorOutcomes ==
    {[result |-> "ok", thumb |-> TRUE, exit |-> 0],
     [result |-> "ok", thumb |-> FALSE, exit |-> 0],
     [result |-> "fail", thumb |-> FALSE, exit |-> 0],
     [result |-> "none", thumb |-> FALSE, exit |-> 1],
     [result |-> "none", thumb |-> TRUE, exit |-> 1],
     [result |-> "none", thumb |-> FALSE, exit |-> -1],
     [result |-> "none", thumb |-> TRUE, exit |-> -1],
     [result |-> "ok", thumb |-> TRUE, exit |-> -1],
     [result |-> "bad", thumb |-> FALSE, exit |-> 1],
     [result |-> "bad", thumb |-> TRUE, exit |-> -1]}

\* Orchestrator.run: glob("*.ready") when the previous listing is used up,
\* then the next entry of the listing: content_hash = ready_file.stem
orch_take(w) ==
    /\ oPc[w] = "idle"
    /\ LET pool == IF oList[w] = {} THEN {h \in Hashes : ready[h]} ELSE oList[w]
       IN \E h \in pool :
            /\ oList' = [oList EXCEPT ![w] = pool \ {h}]
            /\ oHash' = [oHash EXCEPT ![w] = h]
    /\ oPc' = [oPc EXCEPT ![w] = "check"]
    /\ oMeta' = [oMeta EXCEPT ![w] = EmptyDict]
    /\ oQcad' = [oQcad EXCEPT ![w] = FALSE]
    /\ oExit' = [oExit EXCEPT ![w] = 0]
    /\ oMarker' = [oMarker EXCEPT ![w] = "none"]
    /\ UNCHANGED <<xVars, sVars, dbVars, inVars, statusVars, vol, outVars, containers, fVars, workers, uVars>>

\* process_job: if not input_file.exists() or not meta_file.exists():
\*     ready_file.unlink(missing_ok=True); return False
process_check(w) ==
    /\ oPc[w] = "check"
    /\ LET h == oHash[w]
       IN IF binF[h] = "none" \/ jsonF[h].st = "none"
          THEN /\ ready' = [ready EXCEPT ![h] = FALSE]
               /\ oPc' = [oPc EXCEPT ![w] = "idle"]
          ELSE /\ oPc' = [oPc EXCEPT ![w] = "read_meta"]
               /\ UNCHANGED ready
    /\ UNCHANGED <<xVars, sVars, dbVars, binF, jsonF, statusVars, vol, outVars, containers, fVars,
                   workers, oList, oHash, oMeta, oQcad, oExit, oMarker, uVars>>

\* process_job: meta = json.loads(meta_file.read_text()), before the try:
\* a missing or empty file raises, and nothing in process_job or run catches it
process_read_meta(w) ==
    /\ oPc[w] = "read_meta"
    /\ LET h == oHash[w]
       IN IF jsonF[h].st = "full"
          THEN /\ oMeta' = [oMeta EXCEPT ![w] = jsonF[h]]
               /\ oPc' = [oPc EXCEPT ![w] = "prepare"]
          ELSE /\ oPc' = [oPc EXCEPT ![w] = "crashed"]
               /\ UNCHANGED oMeta
    /\ UNCHANGED <<xVars, sVars, dbVars, inVars, statusVars, vol, outVars, containers, fVars,
                   workers, oList, oHash, oQcad, oExit, oMarker, uVars>>

\* process_job: volumes.create(job_vol_name), then the alpine container that
\* copies {hash}.bin and {hash}.json into it; cp of a missing file exits
\* non-zero and containers.run raises
process_prepare(w) ==
    /\ oPc[w] = "prepare"
    /\ LET h == oHash[w]
       IN /\ vol' = [vol EXCEPT ![h].exists = TRUE]
          /\ oPc' = [oPc EXCEPT ![w] =
                IF binF[h] = "none" \/ jsonF[h].st = "none" THEN "except" ELSE "qcad"]
    /\ UNCHANGED <<xVars, sVars, dbVars, inVars, statusVars, outVars, containers, fVars,
                   workers, oList, oHash, oMeta, oQcad, oExit, oMarker, uVars>>

\* process_job: qcad_container = spawn_qcad_for_job(..) when the file needs it;
\* spawn_qcad_for_job returns None when the container cannot be started
process_qcad(w) ==
    /\ oPc[w] = "qcad"
    /\ \E started \in BOOLEAN :
        oQcad' = [oQcad EXCEPT ![w] = needs_qcad(oHash[w]) /\ started]
    /\ oPc' = [oPc EXCEPT ![w] = "spawn"]
    /\ UNCHANGED <<xVars, sVars, dbVars, inVars, statusVars, vol, outVars, containers, fVars,
                   workers, oList, oHash, oMeta, oExit, oMarker, uVars>>

\* process_job: container = self.docker.containers.run(PROCESSOR_IMAGE, ..)
process_spawn(w) ==
    /\ oPc[w] = "spawn"
    /\ containers' = [containers EXCEPT ![oHash[w]] = @ + 1]
    /\ runs' = [runs EXCEPT ![oHash[w]] = Bump(@)]
    /\ oPc' = [oPc EXCEPT ![w] = "wait"]
    /\ UNCHANGED <<xVars, sVars, db, ext, claims, marks, updates, inVars, statusVars, vol, outVars, fVars,
                   workers, oList, oHash, oMeta, oQcad, oExit, oMarker, uVars>>

\* process_job: result = container.wait(timeout=PROCESSOR_TIMEOUT);
\* on an exception (timeout): container.kill(); exit_code = -1
process_wait(w) ==
    /\ oPc[w] = "wait"
    /\ \E o \in ProcessorOutcomes :
        /\ vol' = [vol EXCEPT ![oHash[w]] =
                      [exists |-> TRUE, result |-> o.result, thumb |-> o.thumb]]
        /\ oExit' = [oExit EXCEPT ![w] = o.exit]
    /\ oPc' = [oPc EXCEPT ![w] = "remove"]
    /\ UNCHANGED <<xVars, sVars, dbVars, inVars, statusVars, outVars, containers, fVars,
                   workers, oList, oHash, oMeta, oQcad, oMarker, uVars>>

\* process_job: container.remove(force=True); kill and remove the QCAD container
process_remove(w) ==
    /\ oPc[w] = "remove"
    /\ containers' = [containers EXCEPT ![oHash[w]] = @ - 1]
    /\ oQcad' = [oQcad EXCEPT ![w] = FALSE]
    /\ oPc' = [oPc EXCEPT ![w] = "copy_out"]
    /\ UNCHANGED <<xVars, sVars, dbVars, inVars, statusVars, vol, outVars, fVars,
                   workers, oList, oHash, oMeta, oExit, oMarker, uVars>>

\* process_job: cp -r /work/* /out/, then rename result.json and thumbnail.png
\* to {hash}.result.json and {hash}.thumbnail.png when they exist
process_copy_out(w) ==
    /\ oPc[w] = "copy_out"
    /\ LET h == oHash[w]
       IN /\ outResult' = [outResult EXCEPT ![h] =
                IF vol[h].result # "none" THEN vol[h].result ELSE @]
          /\ outThumb' = [outThumb EXCEPT ![h] = @ \/ vol[h].thumb]
    /\ oPc' = [oPc EXCEPT ![w] = "mark_done"]
    /\ UNCHANGED <<xVars, sVars, dbVars, inVars, statusVars, vol, containers, fVars,
                   workers, oList, oHash, oMeta, oQcad, oExit, oMarker, uVars>>

\* process_job: done_file.write_text(..) opens the file for writing, which
\* creates or truncates status/{hash}.done before any content is in it
process_mark_done_open(w) ==
    /\ oPc[w] = "mark_done"
    /\ doneM' = [doneM EXCEPT ![oHash[w]] = EmptyFile]
    /\ oPc' = [oPc EXCEPT ![w] = "mark_done_write"]
    /\ UNCHANGED <<xVars, sVars, dbVars, inVars, failedM, vol, outVars, containers, fVars,
                   workers, oList, oHash, oMeta, oQcad, oExit, oMarker, uVars>>

\* mutant of process_mark_done: the failed marker is written as well
process_mark_done_both(w) ==
    /\ oPc[w] = "mark_done_write"
    /\ doneM' = [doneM EXCEPT ![oHash[w]] = oMeta[w]]
    /\ failedM' = [failedM EXCEPT ![oHash[w]] = TRUE]
    /\ oMarker' = [oMarker EXCEPT ![w] = "both"]
    /\ marks' = [marks EXCEPT ![oHash[w]] = Bump(Bump(@))]
    /\ oPc' = [oPc EXCEPT ![w] = "unlink_ready"]
    /\ UNCHANGED <<xVars, sVars, db, ext, claims, runs, updates, inVars, vol, outVars, containers,
                   fVars, workers, oList, oHash, oMeta, oQcad, oExit, uVars>>

\* process_job: done_file.write_text(json.dumps(meta)) writes the content and
\* closes the file; return True
process_mark_done(w) ==
    /\ oPc[w] = "mark_done_write"
    /\ doneM' = [doneM EXCEPT ![oHash[w]] = oMeta[w]]
    /\ oMarker' = [oMarker EXCEPT ![w] = IF @ = "none" THEN "done" ELSE "both"]
    /\ marks' = [marks EXCEPT ![oHash[w]] = Bump(@)]
    /\ oPc' = [oPc EXCEPT ![w] = "unlink_ready"]
    /\ UNCHANGED <<xVars, sVars, db, ext, claims, runs, updates, inVars, failedM, vol, outVars, containers,
                   fVars, workers, oList, oHash, oMeta, oQcad, oExit, uVars>>

\* process_job: a Docker call inside the try raises (volume create, container
\* start, kill after a timeout, remove, copy out)
process_raise(w) ==
    /\ oPc[w] \in {"prepare", "spawn", "wait", "remove", "copy_out"}
    /\ oPc' = [oPc EXCEPT ![w] = "except"]
    /\ oExit' = [oExit EXCEPT ![w] = IF oPc[w] = "wait" THEN -1 ELSE @]
    /\ UNCHANGED <<xVars, sVars, dbVars, inVars, statusVars, vol, outVars, containers, fVars,
                   workers, oList, oHash, oMeta, oQcad, oMarker, uVars>>

\* process_job: except Exception: failed_file.write_text(str(e)); return False
process_except(w) ==
    /\ oPc[w] = "except"
    /\ failedM' = [failedM EXCEPT ![oHash[w]] = TRUE]
    /\ oMarker' = [oMarker EXCEPT ![w] = IF @ = "none" THEN "failed" ELSE "both"]
    /\ marks' = [marks EXCEPT ![oHash[w]] = Bump(@)]
    /\ oPc' = [oPc EXCEPT ![w] = "unlink_ready"]
    /\ UNCHANGED <<xVars, sVars, db, ext, claims, runs, updates, inVars, doneM, vol, outVars, containers,
                   fVars, workers, oList, oHash, oMeta, oQcad, oExit, uVars>>

\* process_job, finally: ready_file.unlink(missing_ok=True)
process_unlink_ready(w) ==
    /\ oPc[w] = "unlink_ready"
    /\ ready' = [ready EXCEPT ![oHash[w]] = FALSE]
    /\ oPc' = [oPc EXCEPT ![w] = "unlink_input"]
    /\ UNCHANGED <<xVars, sVars, dbVars, binF, jsonF, statusVars, vol, outVars, containers, fVars,
                   workers, oList, oHash, oMeta, oQcad, oExit, oMarker, uVars>>

\* process_job, finally: input_file.unlink(missing_ok=True)
process_unlink_input(w) ==
    /\ oPc[w] = "unlink_input"
    /\ binF' = [binF EXCEPT ![oHash[w]] = "none"]
    /\ oPc' = [oPc EXCEPT ![w] = "unlink_meta"]
    /\ UNCHANGED <<xVars, sVars, dbVars, jsonF, ready, statusVars, vol, outVars, containers, fVars,
                   workers, oList, oHash, oMeta, oQcad, oExit, oMarker, uVars>>

\* process_job, finally: meta_file.unlink(missing_ok=True)
process_unlink_meta(w) ==
    /\ oPc[w] = "unlink_meta"
    /\ jsonF' = [jsonF EXCEPT ![oHash[w]] = NoFile]
    /\ oPc' = [oPc EXCEPT ![w] = "cleanup"]
    /\ UNCHANGED <<xVars, sVars, dbVars, binF, ready, statusVars, vol, outVars, containers, fVars,
                   workers, oList, oHash, oMeta, oQcad, oExit, oMarker, uVars>>

\* process_job, finally: kill and remove the QCAD container, remove the job
\* volume (Docker refuses while a container still uses it; the error is
\* swallowed), sweep the dwg-exchange; then process_job returns
process_cleanup(w) ==
    /\ oPc[w] = "cleanup"
    /\ oQcad' = [oQcad EXCEPT ![w] = FALSE]
    /\ vol' = [vol EXCEPT ![oHash[w]] = IF containers[oHash[w]] = 0 THEN NoVolume ELSE @]
    /\ oPc' = [oPc EXCEPT ![w] = "idle"]
    /\ UNCHANGED <<xVars, sVars, dbVars, inVars, statusVars, outVars, containers, fVars,
                   workers, oList, oHash, oMeta, oExit, oMarker, uVars>>


\* --------------------------------------------------------------- Uploader
\* mutant of FailedStatus: the comparison is > instead of >=
FailedStatusStrict(t) == IF t > MAX_RETRIES THEN "error" ELSE "pending"

\* update_db_failed: status = "error" if try_count >= MAX_RETRIES else "pending"
FailedStatus(t) == IF t >= MAX_RETRIES THEN "error" ELSE "pending"

\* mutant of update_db_failed: the row is always re-queued as pending
update_db_failed_requeue(d, h, t) ==
    [d EXCEPT ![h] = [processing_status |-> "pending", try_count |-> t]]

\* update_db_failed: UPDATE file_contents SET processing_status, try_count
\* WHERE content_hash = h
update_db_failed(d, h, t) ==
    [d EXCEPT ![h] = [processing_status |-> FailedStatus(t), try_count |-> t]]

\* mutant of update_db_success: the UPDATE counts the attempt as well
update_db_success_counted(d, h) ==
    [d EXCEPT ![h] = [processing_status |-> "done", try_count |-> d[h].try_count + 1]]

\* update_db_success: UPDATE file_contents SET processing_status = 'done'
\* WHERE content_hash = h
update_db_success(d, h) == [d EXCEPT ![h].processing_status = "done"]

\* mutant of take_done: done_file.unlink() is left out
take_done_keep ==
    /\ uPc = "idle"
    /\ \E h \in Hashes :
        /\ doneM[h].st = "full"
        /\ uHash' = h
        /\ uMeta' = doneM[h]
    /\ uPc' = "process_done"
    /\ UNCHANGED <<xVars, sVars, dbVars, inVars, statusVars, vol, outVars, containers, fVars, oVars>>

\* Uploader.run, *.done loop: meta = json.loads(done_file.read_text());
\* done_file.unlink().  json.loads of an empty file raises, and nothing in run
\* catches it: the marker stays and the Uploader ends
take_done ==
    /\ uPc = "idle"
    /\ \E h \in Hashes :
        /\ doneM[h].st # "none"
        /\ uHash' = h
        /\ IF doneM[h].st = "full"
           THEN /\ uMeta' = doneM[h]
                /\ doneM' = [doneM EXCEPT ![h] = NoFile]
                /\ uPc' = "process_done"
           ELSE /\ uMeta' = uMeta
                /\ doneM' = doneM
                /\ uPc' = "crashed_done"
    /\ UNCHANGED <<xVars, sVars, dbVars, inVars, failedM, vol, outVars, containers, fVars, oVars>>

\* process_done up to the DB update.  No result.json: update_db_failed and
\* return (no cleanup_output).  result = json.loads(result_file.read_text())
\* raises for a file that is no JSON document, and neither process_done nor
\* run catches it.  success false: update_db_failed.  Otherwise
\* update_db_success, and update_db_failed when that returns False.  A DB call
\* that raises leaves the row as it was and returns False.
process_done ==
    /\ uPc = "process_done"
    /\ LET h == uHash
           t == MetaTryCount(uMeta) + 1
       IN \E okSuccess \in BOOLEAN, okFailed \in BOOLEAN :
            /\ db' = IF outResult[h] = "bad" THEN db
                     ELSE IF outResult[h] = "ok" /\ okSuccess THEN update_db_success(db, h)
                     ELSE IF okFailed THEN update_db_failed(db, h, t)
                     ELSE db
            /\ updates' = [updates EXCEPT ![h] = IF db' # db THEN Bump(@) ELSE @]
            /\ uPc' = IF outResult[h] = "none" THEN "idle"
                      ELSE IF outResult[h] = "bad" THEN "crashed_result"
                      ELSE "cleanup"
    /\ UNCHANGED <<xVars, sVars, ext, claims, runs, marks, inVars, statusVars, vol, outVars, containers,
                   fVars, oVars, uHash, uMeta>>

\* Uploader.run, *.failed loop: error = failed_file.read_text(); failed_file.unlink()
take_failed ==
    /\ uPc = "idle"
    /\ \E h \in Hashes :
        /\ failedM[h]
        /\ uHash' = h
        /\ failedM' = [failedM EXCEPT ![h] = FALSE]
    /\ uMeta' = EmptyDict
    /\ uPc' = "meta_exists"
    /\ UNCHANGED <<xVars, sVars, dbVars, inVars, doneM, vol, outVars, containers, fVars, oVars>>

\* Uploader.run: meta_file.exists() on input/{hash}.json; meta = {} when absent
failed_meta_exists ==
    /\ uPc = "meta_exists"
    /\ uPc' = IF jsonF[uHash].st = "none" THEN "process_failed" ELSE "meta_read"
    /\ UNCHANGED <<xVars, sVars, dbVars, inVars, statusVars, vol, outVars, containers, fVars, oVars,
                   uHash, uMeta>>

\* Uploader.run: json.loads(meta_file.read_text()); a file that vanished or is
\* empty raises, and nothing in run catches it
failed_meta_read ==
    /\ uPc = "meta_read"
    /\ IF jsonF[uHash].st = "full"
       THEN uMeta' = jsonF[uHash] /\ uPc' = "process_failed"
       ELSE uMeta' = uMeta /\ uPc' = "crashed"
    /\ UNCHANGED <<xVars, sVars, dbVars, inVars, statusVars, vol, outVars, containers, fVars, oVars, uHash>>

\* process_failed: update_db_failed(content_hash, meta.get("try_count", 0) + 1)
process_failed ==
    /\ uPc = "process_failed"
    /\ \E okFailed \in BOOLEAN :
        db' = IF okFailed THEN update_db_failed(db, uHash, MetaTryCount(uMeta) + 1) ELSE db
    /\ updates' = [updates EXCEPT ![uHash] = IF db' # db THEN Bump(@) ELSE @]
    /\ uPc' = "cleanup"
    /\ UNCHANGED <<xVars, sVars, ext, claims, runs, marks, inVars, statusVars, vol, outVars, containers,
                   fVars, oVars, uHash, uMeta>>

\* cleanup_output: unlink every output/{hash}.*
cleanup_output ==
    /\ uPc = "cleanup"
    /\ outResult' = [outResult EXCEPT ![uHash] = "none"]
    /\ outThumb' = [outThumb EXCEPT ![uHash] = FALSE]
    /\ uPc' = "idle"
    /\ UNCHANGED <<xVars, sVars, dbVars, inVars, statusVars, vol, containers, fVars, oVars, uHash, uMeta>>


\* --------------------------------------------------- Uploader: sanitization
\* re.sub pattern [^\x20-\x7E\n\r\t\u00A0-\uFFFF]: the code points it keeps
Allowed(c) == (c >= 32 /\ c <= 126) \/ c \in {10, 13, 9} \/ (c >= 160 /\ c <= 65535)

\* mutant of truncate: the text is not cut
truncate_off(x) == x

\* sanitize_text: if len(text) > MAX_TEXT_LENGTH: text = text[:MAX_TEXT_LENGTH]
truncate(x) ==
    IF TextLen(x) > MAX_TEXT_LENGTH
    THEN IF x.pad >= MAX_TEXT_LENGTH
         THEN [pad |-> MAX_TEXT_LENGTH, tail |-> <<>>]
         ELSE [pad |-> x.pad, tail |-> SubSeq(x.tail, 1, MAX_TEXT_LENGTH - x.pad)]
    ELSE x

\* sanitize_text: text.replace('\x00', '')
replace_nul(x) ==
    [pad |-> IF PadChar = 0 THEN 0 ELSE x.pad,
     tail |-> SelectSeq(x.tail, LAMBDA c : c # 0)]

\* sanitize_text: re.sub(r'[^\x20-\x7E\n\r\t\u00A0-\uFFFF]', '', text)
re_sub(x) ==
    [pad |-> IF Allowed(PadChar) THEN x.pad ELSE 0,
     tail |-> SelectSeq(x.tail, Allowed)]

\* sanitize_text: None and "" are returned as they are
sanitize_text(x) ==
    IF x = NoText \/ TextLen(x) = 0 THEN x ELSE re_sub(replace_nul(truncate(x)))

\* size of clean.save(output_path, "PNG", optimize=True): it depends on the
\* pixels only.  A flat picture compresses to a few kB; a detailed one of
\* 1000 x 750 RGB pixels stays near its 2 250 000 raw bytes (and the
\* dimensions are only logged, so larger pictures pass as well).
PngSize(pixels) == IF pixels = "flat" THEN 4000 ELSE 2250000

\* sanitize_thumbnail(input_path, output_path): [ok, out], out being the file
\* saved at output_path.  Image.open raises for a missing file or one that is
\* no image (return False); any format Pillow reads is accepted.
sanitize_thumbnail(f) ==
    IF f.format \in {"none", "garbage"} THEN [ok |-> FALSE, out |-> NoImage]
    ELSE IF f.size > MAX_THUMBNAIL_SIZE THEN [ok |-> FALSE, out |-> NoImage]
    ELSE [ok |-> TRUE,
          out |-> [format |-> "PNG", mode |-> "RGB", pixels |-> f.pixels,
                   hidden |-> FALSE, size |-> PngSize(f.pixels)]]

\* the code points a tail is made of: NUL, tab, ESC, space, DEL, 0x9F, 0xA0,
\* 0xFFFF, 0x10000
TailChars == {0, 9, 27, 32, 127, 159, 160, 65535, 65536}

\* result["extracted_text"] as json.loads can return it
Texts ==
    {[pad |-> p, tail |-> t] :
        p \in {0, MAX_TEXT_LENGTH - 1, MAX_TEXT_LENGTH, MAX_TEXT_LENGTH + 1},
        t \in UNION {[1..n -> TailChars] : n \in 0..MaxTail}}

\* thumbnail.png as a Processor can leave it
Images ==
    {[format |-> "PNG", mode |-> m, pixels |-> "flat", hidden |-> FALSE, size |-> 4000] :
        m \in {"RGB", "RGBA"}}
    \cup {[format |-> "PNG", mode |-> "RGB", pixels |-> "flat", hidden |-> TRUE, size |-> z] :
        z \in {MAX_THUMBNAIL_SIZE, MAX_THUMBNAIL_SIZE + 1}}
    \cup {[format |-> "PNG", mode |-> "RGB", pixels |-> "noise", hidden |-> FALSE,
           size |-> PngSize("noise")]}
    \cup {[format |-> "JPEG", mode |-> "RGB", pixels |-> "noise", hidden |-> h, size |-> z] :
        h \in BOOLEAN, z \in {300000, MAX_THUMBNAIL_SIZE, MAX_THUMBNAIL_SIZE + 1}}
    \cup {[format |-> "garbage", mode |-> "none", pixels |-> "none", hidden |-> TRUE,
           size |-> 4000]}

\* process_done: if result.get("thumbnail_file") and thumb_file.exists():
\*     if self.sanitize_thumbnail(thumb_file, sanitized_path): ..
process_done_sanitize ==
    /\ sPc = "start"
    /\ IF sResult.thumbnail_file /\ sThumb # NoImage
       THEN LET r == sanitize_thumbnail(sThumb)
            IN /\ sSanitized' = IF r.ok THEN r.out ELSE sSanitized
               /\ sPc' = IF r.ok THEN "upload" ELSE "text"
       ELSE /\ sSanitized' = sSanitized
            /\ sPc' = "text"
    /\ UNCHANGED <<xVars, pipeVars, sResult, sThumb, sPath, sText, sBlob, sDb>>

\* mutant of process_done_upload: thumb_file is uploaded
process_done_upload_raw ==
    /\ sPc = "upload"
    /\ \E ok \in BOOLEAN :
        /\ sBlob' = IF ok THEN sThumb ELSE sBlob
        /\ sPath' = ok
    /\ sSanitized' = NoImage
    /\ sPc' = "text"
    /\ UNCHANGED <<xVars, pipeVars, sResult, sThumb, sText, sDb>>

\* process_done: thumbnail_storage_path = f"{content_hash}.png";
\* upload_thumbnail(sanitized_path, ..), None again when it returns False;
\* sanitized_path.unlink(missing_ok=True)
process_done_upload ==
    /\ sPc = "upload"
    /\ \E ok \in BOOLEAN :
        /\ sBlob' = IF ok THEN sSanitized ELSE sBlob
        /\ sPath' = ok
    /\ sSanitized' = NoImage
    /\ sPc' = "text"
    /\ UNCHANGED <<xVars, pipeVars, sResult, sThumb, sText, sDb>>

\* process_done: if result.get("extracted_text"):
\*     extracted_text = self.sanitize_text(result["extracted_text"])
process_done_text ==
    /\ sPc = "text"
    /\ sText' = IF TextLen(sResult.extracted_text) > 0
                THEN sanitize_text(sResult.extracted_text) ELSE NoText
    /\ sPc' = "db"
    /\ UNCHANGED <<xVars, pipeVars, sResult, sThumb, sSanitized, sPath, sBlob, sDb>>

\* process_done: update_db_success(content_hash, thumbnail_storage_path,
\* extracted_text), and update_db_failed(content_hash, try_count + 1) when it
\* returns False; a DB call that fails writes nothing
process_done_update ==
    /\ sPc = "db"
    /\ \E ok \in BOOLEAN, okFailed \in BOOLEAN :
        /\ sDb' = IF ok THEN [written |-> TRUE, thumbnail_path |-> sPath,
                              extracted_text |-> sText]
                  ELSE sDb
        /\ db' = IF ok THEN update_db_success(db, uHash)
                 ELSE IF okFailed THEN update_db_failed(db, uHash, MetaTryCount(uMeta) + 1)
                 ELSE db
    /\ sPc' = "end"
    /\ UNCHANGED <<xVars, ext, claims, runs, marks, updates, inVars, statusVars, vol, outVars,
                   containers, fVars, oVars, uVars, sResult, sThumb, sSanitized, sPath, sText,
                   sBlob>>


\* ------------------------------------------------------------------- Next
Next ==
    \/ claim_job
    \/ download_open
    \/ download_stream
    \/ write_meta_open
    \/ write_meta
    \/ touch_ready
    \/ download_failed
    \/ \E w \in workers : orch_take(w)
    \/ \E w \in workers : process_check(w)
    \/ \E w \in workers : process_read_meta(w)
    \/ \E w \in workers : process_prepare(w)
    \/ \E w \in workers : process_qcad(w)
    \/ \E w \in workers : process_spawn(w)
    \/ \E w \in workers : process_wait(w)
    \/ \E w \in workers : process_remove(w)
    \/ \E w \in workers : process_copy_out(w)
    \/ \E w \in workers : process_mark_done_open(w)
    \/ \E w \in workers : process_mark_done(w)
    \/ \E w \in workers : process_raise(w)
    \/ \E w \in workers : process_except(w)
    \/ \E w \in workers : process_unlink_ready(w)
    \/ \E w \in workers : process_unlink_input(w)
    \/ \E w \in workers : process_unlink_meta(w)
    \/ \E w \in workers : process_cleanup(w)
    \/ take_done
    \/ process_done
    \/ take_failed
    \/ failed_meta_exists
    \/ failed_meta_read
    \/ process_failed
    \/ cleanup_output

Spec == Init /\ [][Next]_vars

\* several Orchestrator workers polling the same status volume
InitWorkers == InitCommon /\ workers = AllWorkers

SpecWorkers == InitWorkers /\ [][Next]_vars

\* ------------------------------------------------------------ backpressure
\* process_job as far as the *.ready files go: on every path it ends with
\* ready_file.unlink(missing_ok=True)
ready_file_unlink(h) ==
    /\ ready[h]
    /\ ready' = [ready EXCEPT ![h] = FALSE]
    /\ UNCHANGED <<xVars, sVars, dbVars, binF, jsonF, statusVars, vol, outVars, containers,
                   fVars, oVars, uVars>>

\* MaxRows pending rows, one Fetcher, and the Orchestrator draining *.ready
InitBackpressure ==
    /\ InitRows(QueueHashes)
    /\ ext = [h \in QueueHashes |-> "jpg"]
    /\ InitProcs
    /\ InitNoResult
    /\ InitNoProcessor
    /\ InitNoCover
    /\ InitNoSignal
    /\ InitNoExtras
    /\ workers = {"w1"}

NextBackpressure ==
    \/ claim_job
    \/ download_open
    \/ download_stream
    \/ write_meta_open
    \/ write_meta
    \/ touch_ready
    \/ \E h \in QueueHashes : ready_file_unlink(h)

SpecBackpressure == InitBackpressure /\ [][NextBackpressure]_vars

\* ------------------------------------------------------------ sanitization
\* process_done from line 281 on, for one result.json with success = true
\* the Uploader inside process_done for a row that is indexing, claimed with
\* try_count t
InitProcessDone ==
    /\ \E t \in {0, MAX_RETRIES - 1} :
        /\ db = [h \in Hashes |-> [processing_status |-> "indexing", try_count |-> t]]
        /\ uMeta = MetaFile(t)
    /\ InitHistory(Hashes)
    /\ InitVolumes(Hashes)
    /\ InitFeeders
    /\ workers = {"w1"}
    /\ uPc = "process_done"
    /\ uHash \in Hashes

InitSanitize ==
    /\ InitProcessDone
    /\ ext = [h \in Hashes |-> "jpg"]
    /\ InitNoProcessor
    /\ InitNoCover
    /\ InitNoSignal
    /\ InitNoExtras
    /\ sPc = "start"
    /\ sResult \in [thumbnail_file : BOOLEAN, extracted_text : Texts]
    /\ sThumb \in Images \cup {NoImage}
    /\ sSanitized = NoImage
    /\ sPath = FALSE
    /\ sText = NoText
    /\ sBlob = NoImage
    /\ sDb = NoWrite

NextSanitize ==
    \/ process_done_sanitize
    \/ process_done_upload
    \/ process_done_text
    \/ process_done_update

SpecSanitize == InitSanitize /\ [][NextSanitize]_vars

\* ------------------------------------------------------- Processor: texts
TEXT_FALLBACK_MAX_SIZE == 204800

\* n copies of the code point c
Str(c, n) == IF n = 0 THEN <<>> ELSE <<[c |-> c, n |-> n]>>

\* len(text)
RECURSIVE len(_)
len(t) == IF t = <<>> THEN 0 ELSE Head(t).n + len(Tail(t))

\* bool(text): neither None nor ""
Truthy(t) == t # None /\ len(t) > 0

\* str.isspace, for the code points below 256
IsSpace(c) == c \in {9, 10, 11, 12, 13, 28, 29, 30, 31, 32, 133, 160}

\* str.isprintable, for the code points below 256
IsPrintable(c) == (c >= 32 /\ c <= 126) \/ (c >= 161 /\ c <= 255 /\ c # 173)

RECURSIVE lstrip(_)
lstrip(t) == IF t # <<>> /\ IsSpace(Head(t).c) THEN lstrip(Tail(t)) ELSE t

Reverse(t) == [i \in 1..Len(t) |-> t[Len(t) + 1 - i]]

\* text.strip()
strip(t) == Reverse(lstrip(Reverse(lstrip(t))))

\* text[:k]
RECURSIVE slice(_, _)
slice(t, k) ==
    IF t = <<>> \/ k <= 0 THEN <<>>
    ELSE IF Head(t).n <= k THEN <<Head(t)>> \o slice(Tail(t), k - Head(t).n)
    ELSE <<[c |-> Head(t).c, n |-> k]>>

\* text.replace('\x00', '')
remove_nul(t) == SelectSeq(t, LAMBDA r : r.c # 0)

\* '\x00' in text
HasNul(t) == \E i \in 1..Len(t) : t[i].c = 0

\* sum(1 for c in text if c.isprintable() or c in '\n\r\t')
RECURSIVE printable_chars(_)
printable_chars(t) ==
    IF t = <<>> THEN 0
    ELSE (IF IsPrintable(Head(t).c) \/ Head(t).c \in {10, 13, 9} THEN Head(t).n ELSE 0)
         + printable_chars(Tail(t))

\* extract_text_from_pdf; x is "\n\n".join of the pages' texts, None when
\* fitz raises
extract_text_from_pdf(x) ==
    IF x = None THEN None
    ELSE LET full_text == slice(remove_nul(x), MAX_TEXT_LENGTH)
         IN IF len(strip(full_text)) > 0 THEN full_text ELSE None

\* extract_text_from_pdf_page; x is doc[page_num].get_text(), None when there
\* is no such page or fitz raises
extract_text_from_pdf_page(x) ==
    IF x = None \/ len(strip(x)) = 0 THEN None ELSE remove_nul(x)

\* extract_text_from_file: f.read(MAX_TEXT_LENGTH) of the decoded file; None
\* when the file cannot be read
extract_text_from_file(x) ==
    IF x = None THEN None
    ELSE LET text == slice(x, MAX_TEXT_LENGTH)
         IN IF len(strip(text)) > 0 THEN text ELSE None

\* extract_text_fallback; the file holds one byte per character
extract_text_fallback(x) ==
    IF x = None THEN None
    ELSE IF len(x) > TEXT_FALLBACK_MAX_SIZE THEN None
    ELSE LET text == slice(x, MAX_TEXT_LENGTH)
         IN IF HasNul(text) THEN None
            ELSE IF len(strip(text)) = 0 THEN None
            ELSE IF 100 * printable_chars(text) < 99 * len(text) THEN None
            ELSE remove_nul(text)

\* process_image_with_ocr
process_image_with_ocr(ocr_result) ==
    IF ocr_result # NoOcr /\ Truthy(ocr_result.text)
    THEN slice(ocr_result.text, MAX_TEXT_LENGTH)
    ELSE None

\* ------------------------------------------------- Processor: OCR decision
\* ocr_result.get("quality", 0.5), in thousandths
quality_of(ocr_result) == IF ocr_result.quality = -1 THEN 500 ELSE ocr_result.quality

\* needs_ocr_check: the original is none of GENERATED_PDF_SOURCES
needs_ocr_check(original_extension) == original_extension \notin {"dwg", "docx"}

\* mutant of should_use_ocr: case 3 accepts an OCR text of exactly 100 characters
should_use_ocr_from_100(embedded_text, ocr_result) ==
    LET ocr_quality == quality_of(ocr_result)
        emb_len == IF Truthy(embedded_text) THEN len(strip(embedded_text)) ELSE 0
        ocr_len == len(strip(ocr_result.text))
    IN IF emb_len < 10
       THEN IF ocr_len > 50
            THEN [use |-> TRUE, reason |-> "no_embedded_ocr_found_text"]
            ELSE [use |-> FALSE, reason |-> "both_empty"]
       ELSE IF ocr_len > emb_len * 2 /\ ocr_len > 200
       THEN [use |-> TRUE, reason |-> "ocr_found_more"]
       ELSE IF ocr_len >= 100 /\ ocr_quality > 400 /\ emb_len < 500 /\ ocr_quality > 500
       THEN [use |-> TRUE, reason |-> "ocr_better_for_short_embedded"]
       ELSE [use |-> FALSE, reason |-> "embedded_ok"]

\* should_use_ocr(embedded_text, ocr_result): (should_use_ocr, reason)
should_use_ocr(embedded_text, ocr_result) ==
    LET ocr_quality == quality_of(ocr_result)
        emb_len == IF Truthy(embedded_text) THEN len(strip(embedded_text)) ELSE 0
        ocr_len == len(strip(ocr_result.text))
    IN IF emb_len < 10
       THEN IF ocr_len > 50
            THEN [use |-> TRUE, reason |-> "no_embedded_ocr_found_text"]
            ELSE [use |-> FALSE, reason |-> "both_empty"]
       ELSE IF ocr_len > emb_len * 2 /\ ocr_len > 200
       THEN [use |-> TRUE, reason |-> "ocr_found_more"]
       ELSE IF ocr_len > 100 /\ ocr_quality > 400 /\ emb_len < 500 /\ ocr_quality > 500
       THEN [use |-> TRUE, reason |-> "ocr_better_for_short_embedded"]
       ELSE [use |-> FALSE, reason |-> "embedded_ok"]

\* "\n\n--- embedded text ---\n\n"
Separator ==
    <<[c |-> 10, n |-> 2], [c |-> 45, n |-> 3], [c |-> 32, n |-> 1], [c |-> 101, n |-> 1],
      [c |-> 109, n |-> 1], [c |-> 98, n |-> 1], [c |-> 101, n |-> 1], [c |-> 100, n |-> 2],
      [c |-> 101, n |-> 1], [c |-> 100, n |-> 1], [c |-> 32, n |-> 1], [c |-> 116, n |-> 1],
      [c |-> 101, n |-> 1], [c |-> 120, n |-> 1], [c |-> 116, n |-> 1], [c |-> 32, n |-> 1],
      [c |-> 45, n |-> 3], [c |-> 10, n |-> 2]>>

\* mutant of get_final_text: an embedded text of exactly 50 characters is
\* appended as well
get_final_text_from_50(embedded_text, ocr_result, reason) ==
    LET embedded == IF Truthy(embedded_text) THEN strip(embedded_text) ELSE <<>>
        ocr_text == IF ocr_result # NoOcr THEN strip(ocr_result.text) ELSE <<>>
    IN IF reason = "both_empty" THEN <<>>
       ELSE IF reason = "embedded_ok" THEN embedded
       ELSE IF reason \in {"ocr_found_more", "ocr_better_for_short_embedded",
                           "no_embedded_ocr_found_text"}
       THEN IF len(embedded) >= 50 /\ reason # "no_embedded_ocr_found_text"
            THEN ocr_text \o Separator \o embedded
            ELSE ocr_text
       ELSE IF len(embedded) > 0 THEN embedded ELSE ocr_text

\* get_final_text(embedded_text, ocr_result, reason)
get_final_text(embedded_text, ocr_result, reason) ==
    LET embedded == IF Truthy(embedded_text) THEN strip(embedded_text) ELSE <<>>
        ocr_text == IF ocr_result # NoOcr THEN strip(ocr_result.text) ELSE <<>>
    IN IF reason = "both_empty" THEN <<>>
       ELSE IF reason = "embedded_ok" THEN embedded
       ELSE IF reason \in {"ocr_found_more", "ocr_better_for_short_embedded",
                           "no_embedded_ocr_found_text"}
       THEN IF len(embedded) > 50 /\ reason # "no_embedded_ocr_found_text"
            THEN ocr_text \o Separator \o embedded
            ELSE ocr_text
       ELSE IF len(embedded) > 0 THEN embedded ELSE ocr_text

\* process_pdf_with_ocr(source_path, original_extension).  s.text and s.page1
\* are what fitz reads, s.ocr1 the OCR result of page 1 (NoOcr as well when
\* the page cannot be rendered), s.ocr_all the "\n\n".join of the OCR texts
\* of all pages
process_pdf_with_ocr(s, original_extension) ==
    LET embedded_text == extract_text_from_pdf(s.text)
        page1_embedded == extract_text_from_pdf_page(s.page1)
    IN IF ~needs_ocr_check(original_extension) THEN embedded_text
       ELSE IF s.ocr1 = NoOcr THEN embedded_text
       ELSE LET d == should_use_ocr(page1_embedded, s.ocr1)
            IN IF ~d.use THEN embedded_text
               ELSE LET final_text == slice(get_final_text(embedded_text,
                                                [text |-> s.ocr_all, quality |-> -1],
                                                d.reason),
                                            MAX_TEXT_LENGTH)
                    IN IF len(strip(final_text)) > 0 THEN final_text ELSE None

\* process_file(source_path, ..): [thumb, text, raised].  s.thumb is the
\* thumbnail the branch's generator produces (NoImage when it fails), s.conv
\* whether the conversion to PDF works, s.raises whether a library call the
\* branch makes outside any try (create_cover_thumbnail, thumbnail.save) raises
process_file(e, s) ==
    IF e \in {"dwg", "docx"}
    THEN IF ~s.conv THEN [thumb |-> NoImage, text |-> None, raised |-> FALSE]
         ELSE IF s.thumb # NoImage /\ s.raises
         THEN [thumb |-> NoImage, text |-> None, raised |-> TRUE]
         ELSE [thumb |-> s.thumb, text |-> extract_text_from_pdf(s.text), raised |-> FALSE]
    ELSE IF e = "svg"
    THEN IF s.thumb # NoImage /\ s.raises
         THEN [thumb |-> NoImage, text |-> None, raised |-> TRUE]
         ELSE [thumb |-> s.thumb, text |-> None, raised |-> FALSE]
    ELSE IF e = "jpg"
    THEN [thumb |-> s.thumb, text |-> process_image_with_ocr(s.ocr1), raised |-> FALSE]
    ELSE IF e = "pdf"
    THEN [thumb |-> s.thumb, text |-> process_pdf_with_ocr(s, e), raised |-> FALSE]
    ELSE IF e = "txt"
    THEN [thumb |-> NoImage, text |-> extract_text_from_file(s.text), raised |-> FALSE]
    ELSE [thumb |-> s.thumb, text |-> extract_text_fallback(s.text), raised |-> FALSE]

\* ---------------------------------------------------- Processor: main
\* mutant of main_start: a missing input.bin is not checked
main_start_unchecked ==
    /\ pPc = "start"
    /\ IF pJob # "full"
       THEN pPc' = "exited" /\ pExit' = 1
       ELSE pPc' = "process" /\ pExit' = pExit
    /\ UNCHANGED <<yVars, pipeVars, sVars, gVars, lVars, pJob, pInput, pExt, pSrc, pThumb, pResult>>

\* main up to the try: sys.exit(1) when job.json or input.bin is missing;
\* json.loads(job_file.read_text()) and input_file.rename(..) are outside any
\* try, so a job.json that is no JSON document, or a rename that fails, ends
\* the process with a traceback and exit code 1
main_start ==
    /\ pPc = "start"
    /\ \E renamed \in BOOLEAN :
        IF pJob # "full" \/ ~pInput \/ ~renamed
        THEN pPc' = "exited" /\ pExit' = 1
        ELSE pPc' = "process" /\ pExit' = pExit
    /\ UNCHANGED <<yVars, pipeVars, sVars, gVars, lVars, pJob, pInput, pExt, pSrc, pThumb, pResult>>

\* main, the try .. except .. finally: process_file, success = True, the
\* thumbnail moved to /work/thumbnail.png, extracted_text set when it is not
\* empty; an exception (of process_file, or of the move) is recorded in error;
\* the cleanup of finally is outside the try, an exception there ends the
\* process with exit code 1
main_process ==
    /\ pPc = "process"
    /\ LET r == process_file(pExt, pSrc)
       IN \E moved \in BOOLEAN, cleaned \in BOOLEAN :
            /\ pThumb' = IF ~r.raised /\ r.thumb # NoImage /\ moved THEN r.thumb ELSE pThumb
            /\ pResult' =
                IF r.raised
                THEN [st |-> "dict", success |-> FALSE, thumbnail_file |-> FALSE,
                      extracted_text |-> None, error |-> TRUE]
                ELSE IF r.thumb # NoImage /\ ~moved
                THEN [st |-> "dict", success |-> TRUE, thumbnail_file |-> FALSE,
                      extracted_text |-> None, error |-> TRUE]
                ELSE [st |-> "dict", success |-> TRUE, thumbnail_file |-> r.thumb # NoImage,
                      extracted_text |-> IF Truthy(r.text) THEN r.text ELSE None,
                      error |-> FALSE]
            /\ IF cleaned
               THEN pPc' = "write" /\ pExit' = pExit
               ELSE pPc' = "exited" /\ pExit' = 1
    /\ UNCHANGED <<yVars, pipeVars, sVars, gVars, lVars, pJob, pInput, pExt, pSrc>>

\* main: result_file.write_text(json.dumps(result, indent=2)), then main
\* returns and the process exits 0.  write_text creates the file and then
\* writes; when it raises the file is missing or incomplete and the exit code
\* is 1
main_write ==
    /\ pPc = "write"
    /\ \/ pResult' = [pResult EXCEPT !.st = "full"] /\ pExit' = 0
       \/ \E st \in {"none", "bad"} :
            pResult' = [NoResultFile EXCEPT !.st = st] /\ pExit' = 1
    /\ pPc' = "exited"
    /\ UNCHANGED <<yVars, pipeVars, sVars, gVars, lVars, pJob, pInput, pExt, pSrc, pThumb>>

\* the Orchestrator kills the container at the timeout: exit code 137; inside
\* write_text the file is left incomplete
main_killed ==
    /\ pPc \in {"start", "process", "write"}
    /\ pResult' = IF pPc = "write" THEN [NoResultFile EXCEPT !.st = "bad"] ELSE NoResultFile
    /\ pExit' = 137
    /\ pPc' = "exited"
    /\ UNCHANGED <<yVars, pipeVars, sVars, gVars, lVars, pJob, pInput, pExt, pSrc, pThumb>>

\* ------------------------------------- Processor result to the Uploader
RECURSIVE Expand(_)
Expand(t) ==
    IF t = <<>> THEN <<>>
    ELSE [i \in 1..Head(t).n |-> Head(t).c] \o Expand(Tail(t))

\* json.loads(json.dumps(text)): the same code points, as the Uploader's text
json_text(t) ==
    IF t = None THEN NoText
    ELSE IF t # <<>> /\ Head(t).c = PadChar
    THEN [pad |-> Head(t).n, tail |-> Expand(Tail(t))]
    ELSE [pad |-> 0, tail |-> Expand(t)]

\* the Orchestrator copies /work out and writes the done marker; the Uploader
\* takes the marker and process_done reads {hash}.result.json: with success
\* false it calls update_db_failed, otherwise it goes on to the thumbnail
process_done_read ==
    /\ pPc = "exited"
    /\ pResult.st = "full"
    /\ uPc = "idle"
    /\ sPc = "off"
    /\ \E h \in Hashes :
        /\ uHash' = h
        /\ uMeta' = MetaFile(db[h].try_count)
        /\ IF pResult.success
           THEN /\ sPc' = "start"
                /\ db' = db
           ELSE /\ sPc' = "end"
                /\ \E okFailed \in BOOLEAN :
                    db' = IF okFailed THEN update_db_failed(db, h, db[h].try_count + 1)
                          ELSE db
    /\ uPc' = "process_done"
    /\ sResult' = [thumbnail_file |-> pResult.thumbnail_file,
                   extracted_text |-> json_text(pResult.extracted_text)]
    /\ sThumb' = pThumb
    /\ UNCHANGED <<xVars, ext, claims, runs, marks, updates, inVars, statusVars, vol, outVars,
                   containers, fVars, oVars, sSanitized, sPath, sText, sBlob, sDb>>

\* ------------------------------------------------ Processor: input files
\* the thumbnails the Processor's generators save: 400 x 300 or 800 x 600 RGB
\* PNG; a detailed 800 x 600 picture stays near its 1 440 000 raw bytes
ProcessorThumbs ==
    {[format |-> "PNG", mode |-> "RGB", pixels |-> "flat", hidden |-> FALSE, size |-> 4000],
     [format |-> "PNG", mode |-> "RGB", pixels |-> "noise", hidden |-> FALSE, size |-> 1440000]}

FlatThumb ==
    [format |-> "PNG", mode |-> "RGB", pixels |-> "flat", hidden |-> FALSE, size |-> 4000]

\* contents of a file read as text: unreadable, empty, blank, short, with a
\* NUL, with a control character, longer than MAX_TEXT_LENGTH, larger than
\* TEXT_FALLBACK_MAX_SIZE
FileTexts ==
    {None, <<>>, Str(32, 3), Str(PadChar, 5),
     Str(PadChar, 5) \o Str(0, 1) \o Str(32, 1),
     Str(PadChar, 200) \o Str(27, 1),
     Str(PadChar, 10) \o Str(27, 1),
     Str(PadChar, MAX_TEXT_LENGTH + 1),
     Str(PadChar, MAX_TEXT_LENGTH) \o Str(0, 1),
     Str(PadChar, TEXT_FALLBACK_MAX_SIZE + 1)}

\* answers of the OCR sidecar for one picture
ImageOcrs ==
    {NoOcr}
    \cup {[text |-> t, quality |-> 700] :
            t \in {<<>>, Str(PadChar, 60), Str(PadChar, MAX_TEXT_LENGTH + 1)}}

\* the input files of each branch of process_file
Sources(e) ==
    IF e = "jpg"
    THEN {[NoSource EXCEPT !.thumb = th, !.ocr1 = o] :
            th \in ProcessorThumbs \cup {NoImage}, o \in ImageOcrs}
    ELSE IF e = "pdf"
    THEN {[text |-> t, page1 |-> p, ocr1 |-> o, ocr_all |-> a, thumb |-> th,
           conv |-> FALSE, raises |-> FALSE] :
            t \in {None, Str(PadChar, 60), Str(PadChar, 3) \o Str(0, 1)},
            p \in {None, Str(PadChar, 60)},
            o \in {NoOcr, [text |-> Str(PadChar, 300), quality |-> 700],
                   [text |-> Str(PadChar, 30), quality |-> 700]},
            a \in {<<>>, Str(PadChar, 300), Str(PadChar, MAX_TEXT_LENGTH + 1)},
            th \in {NoImage, FlatThumb}}
    ELSE IF e = "txt"
    THEN {[NoSource EXCEPT !.text = t] : t \in FileTexts}
    ELSE IF e = "dwg"
    THEN {[NoSource EXCEPT !.text = t, !.thumb = th, !.conv = c, !.raises = r] :
            t \in {None, Str(PadChar, 60), Str(PadChar, 3) \o Str(0, 1)},
            th \in {NoImage, FlatThumb}, c \in BOOLEAN, r \in BOOLEAN}
    ELSE IF e = "svg"
    THEN {[NoSource EXCEPT !.thumb = th, !.raises = r] :
            th \in {NoImage, FlatThumb}, r \in BOOLEAN}
    ELSE {[NoSource EXCEPT !.text = t, !.thumb = th] :
            t \in FileTexts, th \in {NoImage, FlatThumb}}

\* extensions with a branch of their own in process_file; "bin" is any other
SupportedExtensions == {"jpg", "pdf", "txt", "dwg", "svg"}

\* one Processor run on a job volume as the Orchestrator prepares it, for a
\* row that is indexing, and the Uploader idle
InitProcessor ==
    /\ \E t \in {0, MAX_RETRIES - 1} :
        db = [h \in Hashes |-> [processing_status |-> "indexing", try_count |-> t]]
    /\ InitHistory(Hashes)
    /\ InitVolumes(Hashes)
    /\ InitProcs
    /\ workers = {"w1"}
    /\ ext = [h \in Hashes |-> "jpg"]
    /\ InitNoResult
    /\ InitNoCover
    /\ InitNoSignal
    /\ InitNoExtras
    /\ pPc = "start"
    /\ pJob \in {"none", "bad", "full"}
    /\ pInput \in BOOLEAN
    /\ pExt \in SupportedExtensions \cup {"bin"}
    /\ pSrc \in Sources(pExt)
    /\ pThumb = NoImage
    /\ pResult = NoResultFile
    /\ pExit = -1

NextProcessor ==
    \/ main_start
    \/ main_process
    \/ main_write
    \/ main_killed
    \/ process_done_read
    \/ process_done_sanitize
    \/ process_done_upload
    \/ process_done_text
    \/ process_done_update

SpecProcessor == InitProcessor /\ [][NextProcessor]_vars

\* ------------------------------------------------------------ OCR decision
\* page 1 and the whole document of a PDF with an embedded text of e
\* characters between white space, OCR answers of o characters with quality q
OcrSources ==
    {[text |-> t, page1 |-> p, ocr1 |-> o, ocr_all |-> a, thumb |-> FlatThumb,
      conv |-> FALSE, raises |-> FALSE] :
        t \in {None, Str(32, 1) \o Str(PadChar, 50), Str(PadChar, 51) \o Str(10, 1),
               Str(PadChar, MAX_TEXT_LENGTH + 1)},
        p \in {None} \cup {Str(32, 2) \o Str(PadChar, e) \o Str(10, 1) :
                            e \in {0, 9, 10, 25, 100, 101, 499, 500}},
        o \in {NoOcr}
              \cup {[text |-> Str(32, 1) \o Str(PadChar, n), quality |-> q] :
                      n \in {0, 20, 21, 50, 51, 100, 101, 200, 201, 202, 203, 1000, 1001},
                      q \in {-1, 400, 401, 500, 501}},
        a \in {<<>>, Str(PadChar, 300) \o Str(10, 1), Str(PadChar, MAX_TEXT_LENGTH - 10),
               Str(PadChar, MAX_TEXT_LENGTH + 1)}}

\* process_job.py on PDF files, from the call of process_file on
InitOcr ==
    /\ InitRows(Hashes)
    /\ InitProcs
    /\ workers = {"w1"}
    /\ ext = [h \in Hashes |-> "jpg"]
    /\ InitNoResult
    /\ InitNoCover
    /\ InitNoSignal
    /\ InitNoExtras
    /\ pPc = "process"
    /\ pJob = "full"
    /\ pInput = TRUE
    /\ pExt = "pdf"
    /\ pSrc \in OcrSources
    /\ pThumb = NoImage
    /\ pResult = NoResultFile
    /\ pExit = -1

NextOcr ==
    \/ main_process
    \/ main_write

SpecOcr == InitOcr /\ [][NextOcr]_vars

\* ------------------------------------------------- create_cover_thumbnail
\* create_cover_thumbnail(img, width, height).  The two ratios are compared
\* and int(..) taken on the exact quotients: for sides of this size the
\* floating-point values give the same comparison and the same integer.
\* img.crop accepts an empty box and returns an image with a side of 0
\* pixels; what img.resize makes of such an image is left open (it raises, or
\* returns an image of the requested size)
create_cover_thumbnail ==
    /\ gPc = "call"
    /\ LET W == gImg.width
           H == gImg.height
           width == gTarget.width
           height == gTarget.height
           new_width == (H * width) \div height
           left == (W - new_width) \div 2
           new_height == (W * height) \div width
           top == IF gCrop = "top" THEN 0 ELSE (H - new_height) \div 2
           box == IF W * height > width * H
                  THEN [left |-> left, top |-> 0, right |-> left + new_width, bottom |-> H]
                  ELSE [left |-> 0, top |-> top, right |-> W, bottom |-> top + new_height]
       IN /\ gBox' = box
          /\ \/ /\ gPc' = "returned"
                /\ gOut' = gTarget
             \/ /\ box.right = box.left \/ box.bottom = box.top
                /\ gPc' = "raised"
                /\ gOut' = gOut
    /\ UNCHANGED <<yVars, pipeVars, sVars, pVars, lVars, gImg, gTarget, gCrop>>

\* the configured thumbnail sizes: THUMBNAIL_WIDTH x THUMBNAIL_HEIGHT and
\* THUMBNAIL_LARGE_WIDTH x THUMBNAIL_LARGE_HEIGHT
Targets == {[width |-> 400, height |-> 300], [width |-> 800, height |-> 600]}

\* one call for every image of up to MaxSide x MaxSide pixels
InitCover ==
    /\ InitRows(Hashes)
    /\ InitProcs
    /\ workers = {"w1"}
    /\ ext = [h \in Hashes |-> "jpg"]
    /\ InitNoResult
    /\ InitNoProcessor
    /\ InitNoSignal
    /\ InitNoExtras
    /\ gPc = "call"
    /\ gImg \in [width : 1..MaxSide, height : 1..MaxSide]
    /\ gTarget \in Targets
    /\ gCrop \in {"top", "center"}
    /\ gBox = [left |-> 0, top |-> 0, right |-> 0, bottom |-> 0]
    /\ gOut = [width |-> 0, height |-> 0]

NextCover ==
    \/ create_cover_thumbnail

SpecCover == InitCover /\ [][NextCover]_vars

\* ------------------------------------------------ run loops and signals
\* the services whose run lists a directory and visits the entries
Pollers == {"orchestrator", "uploader", "ocr"}

\* signal_handler of a running service: self.running = False.  The
\* Orchestrator's handler calls cleanup_qcad as well, which does nothing:
\* self.qcad_container is None from __init__ on and never assigned
signal_handler(p) ==
    /\ lPc[p] \notin {"off", "stopped", "crashed"}
    /\ running[p]
    /\ running' = [running EXCEPT ![p] = FALSE]
    /\ UNCHANGED <<yVars, pipeVars, sVars, pVars, gVars, lPc, lList, lWaiting, lAfter>>

\* a job, marker or request arrives for the service
arrive(p) ==
    /\ lPc[p] \notin {"off", "stopped", "crashed"}
    /\ lWaiting[p] < MaxItems
    /\ lWaiting' = [lWaiting EXCEPT ![p] = @ + 1]
    /\ UNCHANGED <<yVars, pipeVars, sVars, pVars, gVars, running, lPc, lList, lAfter>>

\* run: while self.running
loop_top(p) ==
    /\ lPc[p] = "top"
    /\ lPc' = [lPc EXCEPT ![p] = IF ~running[p] THEN "stopped"
                                 ELSE IF p = "fetcher" THEN "claim" ELSE "glob"]
    /\ UNCHANGED <<yVars, pipeVars, sVars, pVars, gVars, running, lList, lWaiting, lAfter>>

\* Fetcher.run, the body: with 10 jobs pending sleep and continue; otherwise
\* job = self.claim_job(), which returns a job ("claimed") or None (the nap)
fetcher_claim ==
    /\ lPc["fetcher"] = "claim"
    /\ \E blocked \in BOOLEAN :
        IF blocked
        THEN /\ lPc' = [lPc EXCEPT !["fetcher"] = "top"]
             /\ UNCHANGED <<lWaiting, lAfter>>
        ELSE IF lWaiting["fetcher"] > 0
        THEN /\ lPc' = [lPc EXCEPT !["fetcher"] = "claimed"]
             /\ lWaiting' = [lWaiting EXCEPT !["fetcher"] = @ - 1]
             /\ lAfter' = [lAfter EXCEPT !["fetcher"] =
                              IF running["fetcher"] THEN @ ELSE Bump(@)]
        ELSE /\ lPc' = [lPc EXCEPT !["fetcher"] = "nap"]
             /\ UNCHANGED <<lWaiting, lAfter>>
    /\ UNCHANGED <<yVars, pipeVars, sVars, pVars, gVars, running, lList>>

\* Fetcher.run: if job: self.download_file(job)
fetcher_download ==
    /\ lPc["fetcher"] = "claimed"
    /\ lPc' = [lPc EXCEPT !["fetcher"] = "item"]
    /\ UNCHANGED <<yVars, pipeVars, sVars, pVars, gVars, running, lList, lWaiting, lAfter>>

\* Fetcher.run: for _ in range(POLL_INTERVAL): if not self.running: break;
\* time.sleep(1)
fetcher_nap ==
    /\ lPc["fetcher"] = "nap"
    /\ lPc' = [lPc EXCEPT !["fetcher"] = "top"]
    /\ UNCHANGED <<yVars, pipeVars, sVars, pVars, gVars, running, lList, lWaiting, lAfter>>

\* run of a poller: the glob listing; the Orchestrator and the OCR watcher
\* sleep and start over when it is empty.  The Uploader lists *.done, and in
\* its second loop ("glob2") *.failed: some of the markers that wait
loop_glob(p) ==
    /\ p \in Pollers
    /\ lPc[p] \in {"glob", "glob2"}
    /\ \E k \in 0..lWaiting[p] :
        /\ p # "uploader" => k = lWaiting[p]
        /\ lList' = [lList EXCEPT ![p] = k]
        /\ lPc' = [lPc EXCEPT ![p] =
                      IF p # "uploader" /\ k = 0 THEN "top"
                      ELSE IF lPc[p] = "glob" THEN "for" ELSE "for2"]
    /\ UNCHANGED <<yVars, pipeVars, sVars, pVars, gVars, running, lWaiting, lAfter>>

\* where a poller goes when its for loop ends or breaks
AfterFor(p, pc) ==
    IF p # "uploader" THEN "top" ELSE IF pc = "for" THEN "glob2" ELSE "sleep"

\* mutant of loop_next: the for loop does not look at self.running
loop_next_unchecked(p) ==
    /\ p \in Pollers
    /\ lPc[p] \in {"for", "for2"}
    /\ lPc' = [lPc EXCEPT ![p] =
                  IF lList[p] = 0 THEN AfterFor(p, lPc[p])
                  ELSE IF lPc[p] = "for" THEN "start" ELSE "start2"]
    /\ UNCHANGED <<yVars, pipeVars, sVars, pVars, gVars, running, lList, lWaiting, lAfter>>

\* run of a poller, the head of the for loop: the next entry of the listing,
\* and for it: if not self.running: break
loop_next(p) ==
    /\ p \in Pollers
    /\ lPc[p] \in {"for", "for2"}
    /\ lPc' = [lPc EXCEPT ![p] =
                  IF lList[p] = 0 \/ ~running[p] THEN AfterFor(p, lPc[p])
                  ELSE IF lPc[p] = "for" THEN "start" ELSE "start2"]
    /\ UNCHANGED <<yVars, pipeVars, sVars, pVars, gVars, running, lList, lWaiting, lAfter>>

\* run of a poller, the body of the for loop: the call of process_job or
\* process_request for the entry; in the Uploader the marker is read and
\* unlinked ("taken", "taken2" for a .failed marker)
loop_start(p) ==
    /\ p \in Pollers
    /\ lPc[p] \in {"start", "start2"}
    /\ lPc' = [lPc EXCEPT ![p] =
                  IF p = "uploader" THEN (IF @ = "start" THEN "taken" ELSE "taken2")
                  ELSE "item"]
    /\ lList' = [lList EXCEPT ![p] = @ - 1]
    /\ lWaiting' = [lWaiting EXCEPT ![p] = @ - 1]
    /\ lAfter' = [lAfter EXCEPT ![p] = IF running[p] THEN @ ELSE Bump(@)]
    /\ UNCHANGED <<yVars, pipeVars, sVars, pVars, gVars, running>>

\* Uploader.run after done_file.unlink(): self.process_done(content_hash, meta)
uploader_process_done ==
    /\ lPc["uploader"] = "taken"
    /\ lPc' = [lPc EXCEPT !["uploader"] = "item"]
    /\ UNCHANGED <<yVars, pipeVars, sVars, pVars, gVars, running, lList, lWaiting, lAfter>>

\* Uploader.run after failed_file.unlink():
\* meta = json.loads(meta_file.read_text()) if meta_file.exists() else {},
\* then self.process_failed(..).  input/{hash}.json is unlinked by the
\* finally of process_job, which follows the marker: a file that goes
\* between exists() and read_text(), or is empty, raises, and nothing in run
\* catches it
uploader_process_failed ==
    /\ lPc["uploader"] = "taken2"
    /\ \E raised \in BOOLEAN :
        lPc' = [lPc EXCEPT !["uploader"] = IF raised THEN "crashed" ELSE "item2"]
    /\ UNCHANGED <<yVars, pipeVars, sVars, pVars, gVars, running, lList, lWaiting, lAfter>>

\* the call returns.  In the Orchestrator and the Uploader it can also raise
\* (json.loads outside any try), which ends the process
item_done(p) ==
    /\ lPc[p] \in {"item", "item2"}
    /\ \E raised \in BOOLEAN :
        /\ raised => p \in {"orchestrator", "uploader"}
        /\ lPc' = [lPc EXCEPT ![p] =
                      IF raised THEN "crashed"
                      ELSE IF p = "fetcher" THEN "top"
                      ELSE IF @ = "item" THEN "for" ELSE "for2"]
    /\ UNCHANGED <<yVars, pipeVars, sVars, pVars, gVars, running, lList, lWaiting, lAfter>>

\* Uploader.run: time.sleep(1) at the end of the while body
uploader_sleep ==
    /\ lPc["uploader"] = "sleep"
    /\ lPc' = [lPc EXCEPT !["uploader"] = "top"]
    /\ UNCHANGED <<yVars, pipeVars, sVars, pVars, gVars, running, lList, lWaiting, lAfter>>

\* one of the services enters run, with work waiting or not
InitShutdown ==
    /\ InitRows(Hashes)
    /\ InitProcs
    /\ workers = {"w1"}
    /\ ext = [h \in Hashes |-> "jpg"]
    /\ InitNoResult
    /\ InitNoProcessor
    /\ InitNoCover
    /\ InitNoExtras
    /\ running = [p \in Services |-> TRUE]
    /\ \E q \in Services :
        /\ lPc = [p \in Services |-> IF p = q THEN "top" ELSE "off"]
        /\ \E n \in 0..MaxItems : lWaiting = [p \in Services |-> IF p = q THEN n ELSE 0]
    /\ lList = [p \in Services |-> 0]
    /\ lAfter = [p \in Services |-> 0]

\* the steps of the services themselves
LoopStep ==
    \/ \E p \in Services : loop_top(p)
    \/ fetcher_claim
    \/ fetcher_download
    \/ fetcher_nap
    \/ \E p \in Services : loop_glob(p)
    \/ \E p \in Services : loop_next(p)
    \/ \E p \in Services : loop_start(p)
    \/ uploader_process_done
    \/ uploader_process_failed
    \/ \E p \in Services : item_done(p)
    \/ uploader_sleep

NextShutdown ==
    \/ \E p \in Services : signal_handler(p)
    \/ \E p \in Services : arrive(p)
    \/ \E p \in Services : loop_top(p)
    \/ fetcher_claim
    \/ fetcher_download
    \/ fetcher_nap
    \/ \E p \in Services : loop_glob(p)
    \/ \E p \in Services : loop_next(p)
    \/ \E p \in Services : loop_start(p)
    \/ uploader_process_done
    \/ uploader_process_failed
    \/ \E p \in Services : item_done(p)
    \/ uploader_sleep

\* a service that can take a step takes one: its process is scheduled, and
\* every call it waits in (sleep, HTTP, container.wait) has a timeout
SpecShutdown == InitShutdown /\ [][NextShutdown]_vars /\ WF_vars(LoopStep)

\* ------------------------------------------- DB and blob-store errors
\* what a DB function's try block can meet: nothing, a refused connection,
\* an error of the statement (the connection stays usable), or a lost
\* connection (psycopg marks the connection closed)
DbOutcomes == {"ok", "connect_failed", "statement_failed", "connection_lost"}
BlobOutcomes == {"ok", "blob_error"}

\* connect_db: opens a connection when there is none or it is closed;
\* [conn, raised, opened]
connect_db(conn, out) ==
    IF conn \in {"none", "broken"}
    THEN IF out = "connect_failed"
         THEN [conn |-> conn, raised |-> TRUE, opened |-> TRUE]
         ELSE [conn |-> "open", raised |-> FALSE, opened |-> TRUE]
    ELSE [conn |-> conn, raised |-> FALSE, opened |-> FALSE]

\* Connection.rollback raises on a connection that was lost
rollback_raises(conn) == conn = "broken"

\* the except block of claim_job / update_db_success / update_db_failed:
\* rollback when db_conn is set, then db_conn = None; [conn, result]
except_reset(conn) ==
    IF conn # "none" /\ rollback_raises(conn)
    THEN [conn |-> conn, result |-> "raised"]
    ELSE [conn |-> "none", result |-> "error"]

\* one DB function (connect, execute, commit; except: rollback and reset):
\* [conn, result, opened], result "ok", "error" (returned None / False) or
\* "raised" (an exception leaves the function)
db_call(conn, out) ==
    LET c == connect_db(conn, out) IN
    IF c.raised
    THEN [opened |-> c.opened] @@ except_reset(c.conn)
    ELSE CASE out = "statement_failed" -> [opened |-> c.opened] @@ except_reset(c.conn)
           [] out = "connection_lost" -> [opened |-> c.opened] @@ except_reset("broken")
           [] OTHER -> [conn |-> c.conn, result |-> "ok", opened |-> c.opened]

\* the outcomes the connection state allows
DbPossible(conn) ==
    IF conn = "open" THEN DbOutcomes \ {"connect_failed"} ELSE DbOutcomes

\* component c calls DB function fn at position at; the function returns and
\* the loop goes on at okPc or errPc, or its exception ends run
DbStep(c, fn, at, okPc, errPc) ==
    /\ ePc[c] = at
    /\ eCalls < MaxCalls
    /\ \E out \in DbPossible(db_conn[c]) :
        LET r == db_call(db_conn[c], out) IN
        /\ db_conn' = [db_conn EXCEPT ![c] = r.conn]
        /\ ePc' = [ePc EXCEPT ![c] = CASE r.result = "ok" -> okPc
                                        [] r.result = "error" -> errPc
                                        [] OTHER -> "crashed"]
        /\ eLast' = [eLast EXCEPT ![c] =
                        [fn |-> fn, error |-> IF out = "ok" THEN "none" ELSE "db",
                         opened |-> r.opened]]
    /\ eCalls' = eCalls + 1
    /\ UNCHANGED eOthers

\* component c calls a blob-store function at position at; every exception
\* is caught inside the function
BlobStep(c, fn, at, nextPc) ==
    /\ ePc[c] = at
    /\ eCalls < MaxCalls
    /\ \E out \in BlobOutcomes :
        eLast' = [eLast EXCEPT ![c] =
                    [fn |-> fn, error |-> IF out = "ok" THEN "none" ELSE "blob",
                     opened |-> FALSE]]
    /\ ePc' = [ePc EXCEPT ![c] = nextPc]
    /\ eCalls' = eCalls + 1
    /\ UNCHANGED <<db_conn, eOthers>>

\* Fetcher.run: job = self.claim_job(); a job or None (no row, or an error)
claim_job_call ==
    \/ DbStep("fetcher", "claim_job", "top", "claimed", "top")
    \/ DbStep("fetcher", "claim_job", "top", "top", "top")

\* Fetcher.run: self.download_file(job)
download_file_call == BlobStep("fetcher", "download_file", "claimed", "top")

\* Uploader.run: a marker is taken; process_done with or without a
\* thumbnail to upload, or process_failed
uploader_take ==
    /\ ePc["uploader"] = "top"
    /\ \E to \in {"upload", "update", "failed"} :
        ePc' = [ePc EXCEPT !["uploader"] = to]
    /\ UNCHANGED <<db_conn, eLast, eCalls, eOthers>>

\* process_done: self.upload_thumbnail(sanitized_path, thumbnail_storage_path)
upload_thumbnail_call == BlobStep("uploader", "upload_thumbnail", "upload", "update")

\* process_done: if self.update_db_success(...) ... else update_db_failed
update_db_success_call ==
    DbStep("uploader", "update_db_success", "update", "top", "failed")

\* process_done / process_failed: self.update_db_failed(...)
update_db_failed_call ==
    DbStep("uploader", "update_db_failed", "failed", "top", "top")

InitErrors ==
    /\ InitRows(Hashes)
    /\ InitProcs
    /\ workers = {"w1"}
    /\ ext = [h \in Hashes |-> "jpg"]
    /\ InitNoResult
    /\ InitNoProcessor
    /\ InitNoCover
    /\ InitNoSignal
    /\ InitNoRequest
    /\ InitNoCad
    /\ InitNoSpawn
    /\ InitNoGaps
    /\ InitNoColumns
    /\ InitNoOutput
    /\ db_conn = [c \in Components |-> "none"]
    /\ ePc = [c \in Components |-> "top"]
    /\ eLast = [c \in Components |-> NoCall]
    /\ eCalls = 0

NextErrors ==
    \/ claim_job_call
    \/ download_file_call
    \/ uploader_take
    \/ upload_thumbnail_call
    \/ update_db_success_call
    \/ update_db_failed_call

SpecErrors == InitErrors /\ [][NextErrors]_vars

\* ------------------------------------------------ OCR sidecar exchange
\* lengths of str(e) for the exceptions process_request catches
ErrLens == {40, 500, 501, 3000}
\* the keys of result_data
ResultKeys == {"text", "confidence", "quality", "word_count", "char_count"}

\* str(e)[:500]
error_text(n) == IF n > 500 THEN 500 ELSE n

\* request_ocr: shutil.copy2(image_path, exchange_image)
request_copy(i) ==
    /\ qPc[i] = "start"
    /\ xImage' = [xImage EXCEPT ![i] = TRUE]
    /\ qPc' = [qPc EXCEPT ![i] = "copied"]
    /\ UNCHANGED <<xRequest, xResult, xFailed, kPc, kList, kId, kErr, kWrote, rOthers>>

\* request_ocr: request_file.write_text opens (creates) the file
request_open(i) ==
    /\ qPc[i] = "copied"
    /\ xRequest' = [xRequest EXCEPT ![i] = "empty"]
    /\ qPc' = [qPc EXCEPT ![i] = "opened"]
    /\ UNCHANGED <<xImage, xResult, xFailed, kPc, kList, kId, kErr, kWrote, rOthers>>

\* request_ocr: request_file.write_text writes and closes; an unlinked
\* file stays unlinked
request_write(i) ==
    /\ qPc[i] = "opened"
    /\ xRequest' = [xRequest EXCEPT ![i] = IF @ = "none" THEN "none" ELSE "full"]
    /\ qPc' = [qPc EXCEPT ![i] = "poll"]
    /\ UNCHANGED <<xImage, xResult, xFailed, kPc, kList, kId, kErr, kWrote, rOthers>>

\* request_ocr: result_file.exists(): json.loads, then cleanup; the load of
\* a file still being written raises and the except block cleans up
request_result(i) ==
    /\ qPc[i] = "poll"
    /\ xResult[i].st # "none"
    /\ IF xResult[i].st = "full"
       THEN xResult' = [xResult EXCEPT ![i] = NoResult] /\ xRequest' = xRequest
       ELSE xResult' = xResult /\ xRequest' = [xRequest EXCEPT ![i] = "none"]
    /\ xImage' = [xImage EXCEPT ![i] = FALSE]
    /\ qPc' = [qPc EXCEPT ![i] = "returned"]
    /\ UNCHANGED <<xFailed, kPc, kList, kId, kErr, kWrote, rOthers>>

\* request_ocr: failed_file.exists(): read, cleanup, return None
request_failed(i) ==
    /\ qPc[i] = "poll"
    /\ xResult[i].st = "none"
    /\ xFailed[i] # -1
    /\ xFailed' = [xFailed EXCEPT ![i] = -1]
    /\ xImage' = [xImage EXCEPT ![i] = FALSE]
    /\ qPc' = [qPc EXCEPT ![i] = "returned"]
    /\ UNCHANGED <<xRequest, xResult, kPc, kList, kId, kErr, kWrote, rOthers>>

\* request_ocr: OCR_TIMEOUT seconds passed without result or failure
request_timeout(i) ==
    /\ qPc[i] = "poll"
    /\ xResult[i].st = "none"
    /\ xFailed[i] = -1
    /\ xRequest' = [xRequest EXCEPT ![i] = "none"]
    /\ xImage' = [xImage EXCEPT ![i] = FALSE]
    /\ qPc' = [qPc EXCEPT ![i] = "returned"]
    /\ UNCHANGED <<xResult, xFailed, kPc, kList, kId, kErr, kWrote, rOthers>>

\* OCRWatcher.run: request_files = list(glob("*.request"))
ocr_glob ==
    /\ kPc = "idle"
    /\ kList' = {i \in Ids : xRequest[i] # "none"}
    /\ kList' # {}
    /\ kPc' = "for"
    /\ UNCHANGED <<xImage, xRequest, xResult, xFailed, kId, kErr, kWrote, qPc, rOthers>>

\* OCRWatcher.run: the for loop enters process_request for the next listed
\* file, or ends
ocr_pick ==
    /\ kPc = "for"
    /\ IF kList = {}
       THEN kPc' = "idle" /\ UNCHANGED <<kList, kId, kWrote>>
       ELSE \E i \in kList :
                /\ kId' = i
                /\ kList' = kList \ {i}
                /\ kWrote' = {}
                /\ kPc' = "picked"
    /\ UNCHANGED <<xImage, xRequest, xResult, xFailed, kErr, qPc, rOthers>>

\* process_request: json.loads(request_file.read_text()) and the check that
\* the image exists
ocr_read ==
    /\ kPc = "picked"
    /\ IF xRequest[kId] = "full" /\ xImage[kId]
       THEN kPc' = "ocr" /\ kErr' = kErr
       ELSE kPc' = "except" /\ \E n \in ErrLens : kErr' = n
    /\ UNCHANGED <<xImage, xRequest, xResult, xFailed, kList, kId, kWrote, qPc, rOthers>>

\* process_request: self.reader.readtext and compute_quality return, or
\* raise (always, when the image is gone)
ocr_readtext ==
    /\ kPc = "ocr"
    /\ \/ xImage[kId] /\ kPc' = "write" /\ kErr' = kErr
       \/ kPc' = "except" /\ \E n \in ErrLens : kErr' = n
    /\ UNCHANGED <<xImage, xRequest, xResult, xFailed, kList, kId, kWrote, qPc, rOthers>>

\* process_request: result_file.write_text opens (creates) the file
ocr_result_open ==
    /\ kPc = "write"
    /\ xResult' = [xResult EXCEPT ![kId] = [st |-> "partial", keys |-> {}]]
    /\ kPc' = "writing"
    /\ UNCHANGED <<xImage, xRequest, xFailed, kList, kId, kErr, kWrote, qPc, rOthers>>

\* process_request: result_file.write_text writes json.dumps(result_data),
\* then request_file.unlink(missing_ok=True); return True
ocr_result_write ==
    /\ kPc = "writing"
    /\ xResult' = [xResult EXCEPT ![kId] =
                        IF @.st = "none" THEN @ ELSE [st |-> "full", keys |-> ResultKeys]]
    /\ kWrote' = kWrote \cup {"result"}
    /\ xRequest' = [xRequest EXCEPT ![kId] = "none"]
    /\ kPc' = "returned"
    /\ UNCHANGED <<xImage, xFailed, kList, kId, kErr, qPc, rOthers>>

\* the except block of process_request without the unlink
ocr_except_keep ==
    /\ kPc = "except"
    /\ xFailed' = [xFailed EXCEPT ![kId] = error_text(kErr)]
    /\ kWrote' = kWrote \cup {"failed"}
    /\ kPc' = "returned"
    /\ UNCHANGED <<xImage, xRequest, xResult, kList, kId, kErr, qPc, rOthers>>

\* process_request: except Exception: write {id}.failed, unlink the
\* request; return False
ocr_except ==
    /\ kPc = "except"
    /\ xFailed' = [xFailed EXCEPT ![kId] = error_text(kErr)]
    /\ kWrote' = kWrote \cup {"failed"}
    /\ xRequest' = [xRequest EXCEPT ![kId] = "none"]
    /\ kPc' = "returned"
    /\ UNCHANGED <<xImage, xResult, kList, kId, kErr, qPc, rOthers>>

\* OCRWatcher.run: process_request returned, the for loop goes on
ocr_loop ==
    /\ kPc = "returned"
    /\ kPc' = "for"
    /\ UNCHANGED <<xImage, xRequest, xResult, xFailed, kList, kId, kErr, kWrote, qPc, rOthers>>

InitRequest ==
    /\ InitRows(Hashes)
    /\ InitProcs
    /\ workers = {"w1"}
    /\ ext = [h \in Hashes |-> "jpg"]
    /\ InitNoResult
    /\ InitNoProcessor
    /\ InitNoCover
    /\ InitNoSignal
    /\ InitNoErrors
    /\ InitNoCad
    /\ InitNoSpawn
    /\ InitNoGaps
    /\ InitNoColumns
    /\ InitNoOutput
    /\ InitExchange
    /\ kPc = "idle"
    /\ qPc = [i \in Ids |-> "start"]

NextRequest ==
    \/ \E i \in Ids : request_copy(i)
    \/ \E i \in Ids : request_open(i)
    \/ \E i \in Ids : request_write(i)
    \/ \E i \in Ids : request_result(i)
    \/ \E i \in Ids : request_failed(i)
    \/ \E i \in Ids : request_timeout(i)
    \/ ocr_glob
    \/ ocr_pick
    \/ ocr_read
    \/ ocr_readtext
    \/ ocr_result_open
    \/ ocr_result_write
    \/ ocr_except
    \/ ocr_loop

SpecRequest == InitRequest /\ [][NextRequest]_vars

\* ---------------------------------------------------- CAD sidecar exchange
\* str(uuid.uuid4()) of conversion i, as far as a 12-character prefix reaches
\* (8 hex digits, a hyphen, 4 hex digits)
HexOf(i) == IF i = 1 THEN "a" ELSE "b"
Uuid(i) == [n \in 1..13 |-> IF n = 9 THEN "-" ELSE HexOf(i)]
\* content_hash[:12] values: 12 hex digits
HashPrefixes == {[n \in 1..12 |-> "a"], [n \in 1..12 |-> "b"]}

\* the shell pattern {prefix}* matches the file name
StartsWith(name, prefix) ==
    Len(name) >= Len(prefix) /\ SubSeq(name, 1, Len(prefix)) = prefix

\* what dwg2pdf can do with a readable drawing: [exit, pdf]
Dwg2PdfOutcomes ==
    {[exit |-> 0, pdf |-> TRUE], [exit |-> 0, pdf |-> FALSE],
     [exit |-> 1, pdf |-> FALSE], [exit |-> 1, pdf |-> TRUE]}

\* [ $? -eq 0 ] && [ -f "/dwg-exchange/${job_id}.pdf" ]
conversion_ok_exit(exit, pdf) == exit = 0
conversion_ok(exit, pdf) == exit = 0 /\ pdf

\* convert_dwg_to_pdf: shutil.copy2(source_path, exchange_dwg)
convert_copy(i) ==
    /\ jPc = "running"
    /\ vPc[i] = "start"
    /\ dDwg' = [dDwg EXCEPT ![i] = TRUE]
    /\ vPc' = [vPc EXCEPT ![i] = "copied"]
    /\ UNCHANGED <<dConvert, dPdf, dDone, dFailed, wPc, wList, wId, wExit, wMade,
                   vRet, vSaw, jPc, jHash, cOthers>>

\* convert_dwg_to_pdf: signal_file.write_text opens (creates) the file
convert_signal_open(i) ==
    /\ jPc = "running"
    /\ vPc[i] = "copied"
    /\ dConvert' = [dConvert EXCEPT ![i] = "empty"]
    /\ vPc' = [vPc EXCEPT ![i] = "opened"]
    /\ UNCHANGED <<dDwg, dPdf, dDone, dFailed, wPc, wList, wId, wExit, wMade,
                   vRet, vSaw, jPc, jHash, cOthers>>

\* convert_dwg_to_pdf: signal_file.write_text writes the name and closes
convert_signal_write(i) ==
    /\ jPc = "running"
    /\ vPc[i] = "opened"
    /\ dConvert' = [dConvert EXCEPT ![i] = IF @ = "none" THEN "none" ELSE "full"]
    /\ vPc' = [vPc EXCEPT ![i] = "poll"]
    /\ UNCHANGED <<dDwg, dPdf, dDone, dFailed, wPc, wList, wId, wExit, wMade,
                   vRet, vSaw, jPc, jHash, cOthers>>

\* convert_dwg_to_pdf: done_file.exists(): unlink it and the drawing, return
\* the PDF path if the PDF exists
convert_done(i) ==
    /\ jPc = "running"
    /\ vPc[i] = "poll"
    /\ dDone[i]
    /\ dDone' = [dDone EXCEPT ![i] = FALSE]
    /\ dDwg' = [dDwg EXCEPT ![i] = FALSE]
    /\ vSaw' = [vSaw EXCEPT ![i] = "done"]
    /\ vRet' = [vRet EXCEPT ![i] = IF dPdf[i] THEN "pdf" ELSE "none"]
    /\ vPc' = [vPc EXCEPT ![i] = IF dPdf[i] THEN "using" ELSE "returned"]
    /\ UNCHANGED <<dConvert, dPdf, dFailed, wPc, wList, wId, wExit, wMade,
                   jPc, jHash, cOthers>>

\* convert_dwg_to_pdf: failed_file.exists(): unlink it and the drawing,
\* return None
convert_failed(i) ==
    /\ jPc = "running"
    /\ vPc[i] = "poll"
    /\ ~dDone[i]
    /\ dFailed[i]
    /\ dFailed' = [dFailed EXCEPT ![i] = FALSE]
    /\ dDwg' = [dDwg EXCEPT ![i] = FALSE]
    /\ vSaw' = [vSaw EXCEPT ![i] = "failed"]
    /\ vRet' = [vRet EXCEPT ![i] = "none"]
    /\ vPc' = [vPc EXCEPT ![i] = "returned"]
    /\ UNCHANGED <<dConvert, dPdf, dDone, wPc, wList, wId, wExit, wMade,
                   jPc, jHash, cOthers>>

\* convert_dwg_to_pdf: 300 s passed: unlink the signal file and the drawing,
\* return None
convert_timeout(i) ==
    /\ jPc = "running"
    /\ vPc[i] = "poll"
    /\ ~dDone[i]
    /\ ~dFailed[i]
    /\ dConvert' = [dConvert EXCEPT ![i] = "none"]
    /\ dDwg' = [dDwg EXCEPT ![i] = FALSE]
    /\ vSaw' = [vSaw EXCEPT ![i] = "timeout"]
    /\ vRet' = [vRet EXCEPT ![i] = "none"]
    /\ vPc' = [vPc EXCEPT ![i] = "returned"]
    /\ UNCHANGED <<dPdf, dDone, dFailed, wPc, wList, wId, wExit, wMade,
                   jPc, jHash, cOthers>>

\* generate_thumbnail / process_file: pdf_path.unlink(missing_ok=True) after
\* the PDF was used
pdf_unlink(i) ==
    /\ jPc = "running"
    /\ vPc[i] = "using"
    /\ dPdf' = [dPdf EXCEPT ![i] = FALSE]
    /\ vPc' = [vPc EXCEPT ![i] = "finished"]
    /\ UNCHANGED <<dDwg, dConvert, dDone, dFailed, wPc, wList, wId, wExit, wMade,
                   vRet, vSaw, jPc, jHash, cOthers>>

\* watcher script: for f in /dwg-exchange/*.convert (the pattern is expanded)
qcad_glob ==
    /\ wPc = "idle"
    /\ wList' = {i \in Ids : dConvert[i] # "none"}
    /\ wList' # {}
    /\ wPc' = "for"
    /\ UNCHANGED <<dDwg, dConvert, dPdf, dDone, dFailed, wId, wExit, wMade,
                   vPc, vRet, vSaw, jPc, jHash, cOthers>>

\* watcher script: next f; [ -e "$f" ] || continue; the loop ends after the
\* last f
qcad_pick ==
    /\ wPc = "for"
    /\ IF wList = {}
       THEN wPc' = "idle" /\ UNCHANGED <<wList, wId, wMade>>
       ELSE \E i \in wList :
                /\ wList' = wList \ {i}
                /\ IF dConvert[i] = "none"
                   THEN UNCHANGED <<wPc, wId, wMade>>
                   ELSE wId' = i /\ wMade' = {} /\ wPc' = "convert"
    /\ UNCHANGED <<dDwg, dConvert, dPdf, dDone, dFailed, wExit,
                   vPc, vRet, vSaw, jPc, jHash, cOthers>>

\* watcher script: dwg=$(cat "$f"); dwg2pdf -o {job_id}.pdf /dwg-exchange/$dwg
qcad_dwg2pdf ==
    /\ wPc = "convert"
    /\ \E o \in Dwg2PdfOutcomes :
        /\ (dConvert[wId] # "full" \/ ~dDwg[wId]) => (o.exit = 1 /\ ~o.pdf)
        /\ wExit' = o.exit
        /\ dPdf' = [dPdf EXCEPT ![wId] = @ \/ o.pdf]
    /\ wPc' = "mark"
    /\ UNCHANGED <<dDwg, dConvert, dDone, dFailed, wList, wId, wMade,
                   vPc, vRet, vSaw, jPc, jHash, cOthers>>

\* watcher script: touch {job_id}.done or write {job_id}.failed, then
\* rm -f "$f"
qcad_mark ==
    /\ wPc = "mark"
    /\ IF conversion_ok(wExit, dPdf[wId])
       THEN /\ dDone' = [dDone EXCEPT ![wId] = TRUE]
            /\ wMade' = wMade \cup {"done"}
            /\ dFailed' = dFailed
       ELSE /\ dFailed' = [dFailed EXCEPT ![wId] = TRUE]
            /\ wMade' = wMade \cup {"failed"}
            /\ dDone' = dDone
    /\ dConvert' = [dConvert EXCEPT ![wId] = "none"]
    /\ wPc' = "for"
    /\ UNCHANGED <<dDwg, dPdf, wList, wId, wExit, vPc, vRet, vSaw, jPc, jHash, cOthers>>

\* process_job: container.wait returns; the Processor ended by itself
processor_exit ==
    /\ jPc = "running"
    /\ \A i \in Ids : vPc[i] \in {"start", "returned", "finished"}
    /\ jPc' = "exited"
    /\ UNCHANGED <<dDwg, dConvert, dPdf, dDone, dFailed, wPc, wList, wId, wExit, wMade,
                   vPc, vRet, vSaw, jHash, cOthers>>

\* process_job: container.wait timed out, container.kill()
processor_kill ==
    /\ jPc = "running"
    /\ jPc' = "killed"
    /\ UNCHANGED <<dDwg, dConvert, dPdf, dDone, dFailed, wPc, wList, wId, wExit, wMade,
                   vPc, vRet, vSaw, jHash, cOthers>>

\* process_job: qcad_container.kill()
qcad_kill ==
    /\ jPc \in {"exited", "killed"}
    /\ wPc' = "killed"
    /\ jPc' = "sweep"
    /\ UNCHANGED <<dDwg, dConvert, dPdf, dDone, dFailed, wList, wId, wExit, wMade,
                   vPc, vRet, vSaw, jHash, cOthers>>

\* process_job (finally): rm -f /dwg-exchange/{content_hash[:12]}*; return
dwg_exchange_sweep ==
    /\ jPc = "sweep"
    /\ dDwg' = [i \in Ids |-> dDwg[i] /\ ~StartsWith(Uuid(i), jHash)]
    /\ dConvert' = [i \in Ids |-> IF StartsWith(Uuid(i), jHash) THEN "none" ELSE dConvert[i]]
    /\ dPdf' = [i \in Ids |-> dPdf[i] /\ ~StartsWith(Uuid(i), jHash)]
    /\ dDone' = [i \in Ids |-> dDone[i] /\ ~StartsWith(Uuid(i), jHash)]
    /\ dFailed' = [i \in Ids |-> dFailed[i] /\ ~StartsWith(Uuid(i), jHash)]
    /\ jPc' = "returned"
    /\ UNCHANGED <<wPc, wList, wId, wExit, wMade, vPc, vRet, vSaw, jHash, cOthers>>

InitCad ==
    /\ InitRows(Hashes)
    /\ InitProcs
    /\ workers = {"w1"}
    /\ ext = [h \in Hashes |-> "dwg"]
    /\ InitNoResult
    /\ InitNoProcessor
    /\ InitNoCover
    /\ InitNoSignal
    /\ InitNoErrors
    /\ InitNoRequest
    /\ InitNoSpawn
    /\ InitNoGaps
    /\ InitNoColumns
    /\ InitNoOutput
    /\ InitCadExchange
    /\ wPc = "idle"
    /\ vPc = [i \in Ids |-> "start"]
    /\ jPc = "running"
    /\ jHash \in HashPrefixes

NextCad ==
    \/ \E i \in Ids : convert_copy(i)
    \/ \E i \in Ids : convert_signal_open(i)
    \/ \E i \in Ids : convert_signal_write(i)
    \/ \E i \in Ids : convert_done(i)
    \/ \E i \in Ids : convert_failed(i)
    \/ \E i \in Ids : convert_timeout(i)
    \/ \E i \in Ids : pdf_unlink(i)
    \/ qcad_glob
    \/ qcad_pick
    \/ qcad_dwg2pdf
    \/ qcad_mark
    \/ processor_exit
    \/ processor_kill
    \/ qcad_kill
    \/ dwg_exchange_sweep

SpecCad == InitCad /\ [][NextCad]_vars

\* ------------------------------------------- the spawned Processor container
\* the Docker volumes: the job volume job-{hash[:12]} and the shared ones
JobVolume(h) == [name |-> "job", hash |-> h]
DWG_EXCHANGE_VOLUME == [name |-> "tte-dwg-exchange", hash |-> <<>>]
OcrExchangeVolume == [name |-> "ocr-exchange", hash |-> <<>>]
\* OCR_EXCHANGE_DIR of ocr_client, the path request_ocr writes to
OCR_EXCHANGE_DIR == "/ocr-exchange"

\* settings from the environment
Memories == {"1g", "2g"}
Cpus == {5, 10, 20}
Runtimes == {"runsc", "kata", "runc", ""}

\* process_job: run_kwargs, plus the runtime when one is configured
run_kwargs(h, env) ==
    [network_mode |-> "none",
     read_only |-> TRUE,
     mem_limit |-> env.memory,
     nano_cpus |-> env.cpus * 100000000,
     pids_limit |-> 200,
     volumes |-> {[volume |-> JobVolume(h), bind |-> "/work", mode |-> "rw"],
                  [volume |-> DWG_EXCHANGE_VOLUME, bind |-> "/dwg-exchange", mode |-> "rw"]},
     tmpfs |-> {[path |-> "/tmp", size |-> "512m", mode |-> "1777"]},
     runtime |-> IF env.runtime # "" /\ env.runtime # "runc" THEN env.runtime ELSE ""]

\* the volume a path of the container lies in, if any is mounted there
MountedAt(kw, path) == {m \in kw.volumes : m.bind = path}

\* process_job: container = self.docker.containers.run(PROCESSOR_IMAGE, **run_kwargs)
containers_run ==
    /\ nPc = "idle"
    /\ nKwargs' = run_kwargs(nJob, nEnv)
    /\ nPc' = "spawned"
    /\ UNCHANGED <<nEnv, nJob, nOcr, nOthers>>

\* request_ocr in the container: shutil.copy2 and write_text under
\* OCR_EXCHANGE_DIR; without a writable mount there the path is on the
\* read-only root file system and the write raises
processor_request_ocr ==
    /\ nPc = "spawned"
    /\ nOcr' = IF \E m \in MountedAt(nKwargs, OCR_EXCHANGE_DIR) :
                    m.volume = OcrExchangeVolume /\ m.mode = "rw"
               THEN "ocr_volume"
               ELSE "raised"
    /\ nPc' = "requested"
    /\ UNCHANGED <<nEnv, nJob, nKwargs, nOthers>>

\* process_job: container.remove(force=True); the next job
container_remove ==
    /\ nPc \in {"spawned", "requested"}
    /\ nPc' = "idle"
    /\ nOcr' = "none"
    /\ nKwargs' = NoKwargs
    /\ \E h \in HashPrefixes : nJob' = h
    /\ UNCHANGED <<nEnv, nOthers>>

InitSpawn ==
    /\ InitRows(Hashes)
    /\ InitProcs
    /\ workers = {"w1"}
    /\ ext = [h \in Hashes |-> "jpg"]
    /\ InitNoResult
    /\ InitNoProcessor
    /\ InitNoCover
    /\ InitNoSignal
    /\ InitNoErrors
    /\ InitNoRequest
    /\ InitNoCad
    /\ InitNoGaps
    /\ InitNoColumns
    /\ InitNoOutput
    /\ nPc = "idle"
    /\ nEnv \in [memory : Memories, cpus : Cpus, runtime : Runtimes]
    /\ nJob \in HashPrefixes
    /\ nKwargs = NoKwargs
    /\ nOcr = "none"

NextSpawn ==
    \/ containers_run
    \/ processor_request_ocr
    \/ container_remove

SpecSpawn == InitSpawn /\ [][NextSpawn]_vars

\* ------------------------------------------------------- find_gap_splits
\* lengths of the runs of the arrays given to find_gap_splits
ContentLens == {1, 28, 29}
GapLens == {1, 10, 11, 30}
EdgeLens == {0, 12}

\* a run of n no-content entries, nothing for n = 0
Edge(n) == IF n = 0 THEN <<>> ELSE <<[v |-> FALSE, n |-> n]>>

\* k runs of content separated by gaps
RECURSIVE Bodies(_)
Bodies(k) ==
    IF k = 1
    THEN {<<[v |-> TRUE, n |-> c]>> : c \in ContentLens}
    ELSE {b \o <<[v |-> FALSE, n |-> g], [v |-> TRUE, n |-> c]>> :
            b \in Bodies(k - 1), g \in GapLens, c \in ContentLens}

\* the arrays followed: empty, without content, and up to MaxRuns runs of
\* content with or without no-content edges
ContentArrays ==
    {<<>>, Edge(12)}
        \cup UNION {{Edge(l) \o b \o Edge(t) : b \in Bodies(k), l \in EdgeLens, t \in EdgeLens} :
                        k \in 1..MaxRuns}

\* has_content as the sequence of its entries; Python index i is entry i + 1
RECURSIVE Entries(_)
Entries(rs) ==
    IF rs = <<>> THEN <<>>
    ELSE [k \in 1..rs[1].n |-> rs[1].v] \o Entries(Tail(rs))

\* has_content.any()
any(a) == \E k \in 1..Len(a) : a[k]

\* np.argmax(has_content): index of the first True
first_of(a) == CHOOSE i \in 0..(Len(a) - 1) : a[i + 1] /\ \A k \in 0..(i - 1) : ~a[k + 1]

\* len(has_content) - np.argmax(has_content[::-1]): index after the last True
last_of(a) == CHOOSE i \in 1..Len(a) : a[i] /\ \A k \in (i + 1)..Len(a) : ~a[k]

\* int(content_span * gap_threshold_ratio) with gap_threshold_ratio = 0.15
gap_threshold_of(content_span) == (content_span * 15) \div 100

\* the iteration of the for loop of find_gap_splits for index i with
\* has_content[i] = v, on the loop's variables st = [in_gap, gap_start, splits]
gap_step(st, v, i, gap_threshold) ==
    IF ~v
    THEN IF ~st.in_gap
         THEN [st EXCEPT !.in_gap = TRUE, !.gap_start = i]
         ELSE st
    ELSE IF st.in_gap
         THEN [st EXCEPT !.in_gap = FALSE,
                         !.splits = IF i - st.gap_start >= gap_threshold
                                    THEN Append(@, i) ELSE @]
         ELSE st

\* the iterations for i in range(first, last) over the runs rs, the first
\* of which starts at index i; within a run of equal entries only the first
\* iteration changes the loop's variables
RECURSIVE gap_loop(_, _, _, _, _, _)
gap_loop(rs, i, st, first, last, gap_threshold) ==
    IF rs = <<>> THEN st
    ELSE LET r == rs[1]
             from == IF i < first THEN first ELSE i
         IN  gap_loop(Tail(rs), i + r.n,
                      IF from < i + r.n /\ from < last
                      THEN gap_step(st, r.v, from, gap_threshold)
                      ELSE st,
                      first, last, gap_threshold)

\* splits = [], in_gap = False, gap_start = 0
LoopStart == [in_gap |-> FALSE, gap_start |-> 0, splits |-> <<>>]

\* find_gap_splits without the return for thresholds below 10
find_gap_splits_unguarded(rs) ==
    LET a == Entries(rs) IN
    IF ~any(a) THEN <<>>
    ELSE LET first == first_of(a)
             last == last_of(a)
         IN  IF last - first <= 0 THEN <<>>
             ELSE gap_loop(rs, 0, LoopStart, first, last,
                           gap_threshold_of(last - first)).splits

find_gap_splits(rs) ==
    LET a == Entries(rs) IN
    IF ~any(a) THEN <<>>
    ELSE LET first == first_of(a)
             last == last_of(a)
             content_span == last - first
             gap_threshold == gap_threshold_of(content_span)
         IN  IF content_span <= 0 THEN <<>>
             ELSE IF gap_threshold < 10 THEN <<>>
             ELSE gap_loop(rs, 0, LoopStart, first, last, gap_threshold).splits

\* find_largest_content_region: find_gap_splits(row_has_content)
call_find_gap_splits ==
    /\ hPc = "call"
    /\ hSplits' = find_gap_splits(hArr)
    /\ hPc' = "returned"
    /\ UNCHANGED <<hArr, hOthers>>

InitGaps ==
    /\ InitRows(Hashes)
    /\ InitProcs
    /\ workers = {"w1"}
    /\ ext = [h \in Hashes |-> "jpg"]
    /\ InitNoResult
    /\ InitNoProcessor
    /\ InitNoCover
    /\ InitNoSignal
    /\ InitNoErrors
    /\ InitNoRequest
    /\ InitNoCad
    /\ InitNoSpawn
    /\ InitNoColumns
    /\ InitNoOutput
    /\ hPc = "call"
    /\ hArr \in ContentArrays
    /\ hSplits = <<>>

NextGaps ==
    \/ call_find_gap_splits

SpecGaps == InitGaps /\ [][NextGaps]_vars

\* ------------------------------------------- the Uploader's UPDATE statements
\* the content_hash parameters: the rows followed and a hash without a row
UpdateKeys == RowKeys \cup {3}
\* thumbnail_path and extracted_text values already stored, and passed
StoredPaths == {NULL, "old.png"}
StoredTexts == {NULL, "old text"}
NewPaths == {NULL, "new.png"}
NewTexts == {NULL, "", "new text"}

\* COALESCE that takes its first argument even when it is NULL
COALESCE_first(a, b) == a
\* COALESCE(a, b)
COALESCE(a, b) == IF a # NULL THEN a ELSE b

\* update_db_success: the UPDATE statement with its parameters
update_success_sql(rows, content_hash, thumbnail_path, extracted_text, now) ==
    [h \in DOMAIN rows |->
        IF h = content_hash
        THEN [rows[h] EXCEPT
                !.processing_status = "done",
                !.thumbnail_path = COALESCE(thumbnail_path, @),
                !.thumbnail_generated_at = IF thumbnail_path # NULL THEN now ELSE @,
                !.extracted_text = COALESCE(extracted_text, @),
                !.last_status_change = now]
        ELSE rows[h]]

\* update_db_failed: the UPDATE statement with its parameters
update_failed_sql(rows, content_hash, try_count, now) ==
    [h \in DOMAIN rows |->
        IF h = content_hash
        THEN [rows[h] EXCEPT
                !.processing_status = FailedStatus(try_count),
                !.try_count = try_count,
                !.last_status_change = now]
        ELSE rows[h]]

\* Uploader.update_db_success(content_hash, thumbnail_path, extracted_text)
update_db_success_run ==
    /\ tNow < MaxClock
    /\ \E h \in UpdateKeys, tp \in NewPaths, et \in NewTexts :
        /\ tRows' = update_success_sql(tRows, h, tp, et, tNow + 1)
        /\ tLast' = [fn |-> "update_db_success", content_hash |-> h,
                     thumbnail_path |-> tp, extracted_text |-> et, try_count |-> 0]
    /\ tNow' = tNow + 1
    /\ UNCHANGED tOthers

\* Uploader.update_db_failed(content_hash, try_count)
update_db_failed_run ==
    /\ tNow < MaxClock
    /\ \E h \in UpdateKeys, t \in 1..MAX_RETRIES :
        /\ tRows' = update_failed_sql(tRows, h, t, tNow + 1)
        /\ tLast' = [fn |-> "update_db_failed", content_hash |-> h,
                     thumbnail_path |-> NULL, extracted_text |-> NULL, try_count |-> t]
    /\ tNow' = tNow + 1
    /\ UNCHANGED tOthers

InitColumns ==
    /\ InitRows(Hashes)
    /\ InitProcs
    /\ workers = {"w1"}
    /\ ext = [h \in Hashes |-> "jpg"]
    /\ InitNoResult
    /\ InitNoProcessor
    /\ InitNoCover
    /\ InitNoSignal
    /\ InitNoErrors
    /\ InitNoRequest
    /\ InitNoCad
    /\ InitNoSpawn
    /\ InitNoGaps
    /\ InitNoOutput
    /\ tRows \in [RowKeys -> {[NoRow EXCEPT !.processing_status = "indexing",
                                            !.thumbnail_path = tp,
                                            !.thumbnail_generated_at = IF tp = NULL THEN NULL ELSE 0,
                                            !.extracted_text = et] :
                                tp \in StoredPaths, et \in StoredTexts}]
    /\ tNow = 0
    /\ tLast = NoStatement

NextColumns ==
    \/ update_db_success_run
    \/ update_db_failed_run

SpecColumns == InitColumns /\ [][NextColumns]_vars

\* ------------------------------------------- copy and rename of results
\* what a Processor run leaves in /work besides input.bin and job.json:
\* processor.log from the start of process_job.py, thumbnail.png and
\* result.json when it gets that far
WorkOutcomes ==
    {{"log"}, {"log", "result"}, {"log", "thumb"}, {"log", "result", "thumb"}}

\* cp -r /work/* /out/: the shell expands * in sorted order
CopyOrder == <<"log", "result", "thumb">>

\* process_job: work_result, work_thumb, work_log are looked at in this order
RenameOrder == <<"result", "thumb", "log">>

\* Orchestrator.run: content_hash = ready_file.stem for a listed *.ready;
\* process_job up to the end of the Processor run on the job's volume
results_take(w) ==
    /\ zPc[w] = "idle"
    /\ \E h \in zReady, o \in WorkOutcomes :
        /\ zHash' = [zHash EXCEPT ![w] = h]
        /\ zWork' = [zWork EXCEPT ![h] = o]
    /\ zPc' = [zPc EXCEPT ![w] = "copy"]
    /\ zTodo' = [zTodo EXCEPT ![w] = CopyOrder]
    /\ UNCHANGED <<zFixed, zOut, zReady>>
    /\ UNCHANGED zOthers

\* process_job: the alpine container's cp -r /work/* /out/, file by file:
\* /out is the output volume itself, so the copy has the name it had in /work
results_copy(w) ==
    /\ zPc[w] = "copy"
    /\ LET f == Head(zTodo[w])
           h == zHash[w]
       IN /\ zFixed' = IF f \in zWork[h] THEN [zFixed EXCEPT ![f] = h] ELSE zFixed
          /\ zTodo' = [zTodo EXCEPT ![w] = IF Len(@) = 1 THEN RenameOrder ELSE Tail(@)]
          /\ zPc' = [zPc EXCEPT ![w] = IF Len(zTodo[w]) = 1 THEN "exists" ELSE "copy"]
    /\ UNCHANGED <<zWork, zOut, zReady, zHash>>
    /\ UNCHANGED zOthers

\* process_job: if work_result.exists(): (and the same for work_thumb, work_log)
results_exists(w) ==
    /\ zPc[w] = "exists"
    /\ LET f == Head(zTodo[w])
       IN IF zFixed[f] # 0
          THEN /\ zPc' = [zPc EXCEPT ![w] = "rename"]
               /\ UNCHANGED zTodo
          ELSE /\ zTodo' = [zTodo EXCEPT ![w] = Tail(@)]
               /\ zPc' = [zPc EXCEPT ![w] = IF Len(zTodo[w]) = 1 THEN "finally" ELSE "exists"]
    /\ UNCHANGED <<zWork, zFixed, zOut, zReady, zHash>>
    /\ UNCHANGED zOthers

\* process_job: work_result.rename(OUTPUT_DIR / f"{content_hash}.result.json")
\* (and the same for the two others); rename of a file that is gone raises,
\* which ends the try
results_rename(w) ==
    /\ zPc[w] = "rename"
    /\ LET f == Head(zTodo[w])
           h == zHash[w]
       IN IF zFixed[f] # 0
          THEN /\ zOut' = [zOut EXCEPT ![h][f] = zFixed[f]]
               /\ zFixed' = [zFixed EXCEPT ![f] = 0]
               /\ zTodo' = [zTodo EXCEPT ![w] = Tail(@)]
               /\ zPc' = [zPc EXCEPT ![w] = IF Len(zTodo[w]) = 1 THEN "finally" ELSE "exists"]
          ELSE /\ zTodo' = [zTodo EXCEPT ![w] = <<>>]
               /\ zPc' = [zPc EXCEPT ![w] = "finally"]
               /\ UNCHANGED <<zOut, zFixed>>
    /\ UNCHANGED <<zWork, zReady, zHash>>
    /\ UNCHANGED zOthers

\* process_job: the status marker, then finally: ready_file.unlink(missing_ok=True)
results_finally(w) ==
    /\ zPc[w] = "finally"
    /\ zReady' = zReady \ {zHash[w]}
    /\ zPc' = [zPc EXCEPT ![w] = "idle"]
    /\ zTodo' = [zTodo EXCEPT ![w] = <<>>]
    /\ UNCHANGED <<zWork, zFixed, zOut, zHash>>
    /\ UNCHANGED zOthers

\* one or two Orchestrator processes on the same volumes, two jobs ready,
\* an output volume without files
InitResults ==
    /\ InitRows(Hashes)
    /\ InitProcs
    /\ workers \in {{"w1"}, AllWorkers}
    /\ ext = [h \in Hashes |-> "jpg"]
    /\ InitNoResult
    /\ InitNoProcessor
    /\ InitNoCover
    /\ InitNoSignal
    /\ InitNoErrors
    /\ InitNoRequest
    /\ InitNoCad
    /\ InitNoSpawn
    /\ InitNoGaps
    /\ InitNoColumns
    /\ zWork = [h \in OutHashes |-> {}]
    /\ zFixed = [f \in OutFiles |-> 0]
    /\ zOut = [h \in OutHashes |-> [f \in OutFiles |-> 0]]
    /\ zReady = OutHashes
    /\ zPc = [w \in AllWorkers |-> IF w \in workers THEN "idle" ELSE "off"]
    /\ zHash = [w \in AllWorkers |-> 0]
    /\ zTodo = [w \in AllWorkers |-> <<>>]

NextResults ==
    \/ \E w \in workers : results_take(w)
    \/ \E w \in workers : results_copy(w)
    \/ \E w \in workers : results_exists(w)
    \/ \E w \in workers : results_rename(w)
    \/ \E w \in workers : results_finally(w)

SpecResults == InitResults /\ [][NextResults]_vars

\* ----------------------------------------------------------------- claims
\* a step of worker w in which process_job returns
Returns(w) == oPc[w] \in {"check", "cleanup"} /\ oPc'[w] = "idle"

\* C1: a failure update with new try count t stores try_count = t and the
\* status error exactly when t >= MAX_RETRIES, pending otherwise.
C1_FailureRecorded ==
    [][\A h \in Hashes :
        (uPc \in {"process_done", "process_failed"} /\ db'[h] # db[h]
            /\ db'[h].processing_status # "done")
        => LET t == MetaTryCount(uMeta) + 1
           IN /\ db'[h].try_count = t
              /\ (t >= MAX_RETRIES => db'[h].processing_status = "error")
              /\ (t < MAX_RETRIES => db'[h].processing_status = "pending")]_vars

C1_Witness ==
    \E h \in Hashes :
        /\ db[h] = [processing_status |-> "error", try_count |-> MAX_RETRIES]
        /\ updates[h] = 1
        /\ uPc = "cleanup"

\* C2: consuming status/{hash}.failed writes the try_count the job had when
\* it was claimed plus one (the row keeps that try_count while it is indexing).
C2_FailedMarkerIncrements ==
    [][(uPc = "process_failed" /\ db' # db)
        => db'[uHash].try_count = db[uHash].try_count + 1]_vars

\* C3: try_count <= MAX_RETRIES, and a row at MAX_RETRIES is done or error.
C3_TryCountBounded ==
    \A h \in Hashes :
        /\ db[h].try_count <= MAX_RETRIES
        /\ (db[h].try_count = MAX_RETRIES
                => db[h].processing_status \in {"done", "error"})

C3_Witness ==
    \E h \in Hashes :
        /\ db[h].try_count = MAX_RETRIES
        /\ db[h].processing_status = "error"
        /\ claims[h] = MAX_RETRIES

\* C4: a job whose attempts all fail is claimed at most MAX_RETRIES times
\* (a row is claimed again only after a failure was recorded for it).
C4_ClaimsBounded == \A h \in Hashes : claims[h] <= MAX_RETRIES

C7_ExactlyOneMarker ==
    [][\A w \in workers : Returns(w) => oMarker[w] \in {"done", "failed"}]_vars

\* C8: after a Processor timeout (container.wait raised) the marker that
\* process_job writes is status/{hash}.failed, not status/{hash}.done.
C8_TimeoutEmitsFailed ==
    \A w \in workers : (oExit[w] = -1 /\ oMarker[w] # "none") => oMarker[w] = "failed"

\* C9: no error raised while handling a job leaves process_job: the
\* Orchestrator loop is never terminated by it.
C9_NoErrorEscapes == \A w \in workers : oPc[w] # "crashed"

\* C10: when process_job returns, {hash}.ready, input/{hash}.bin,
\* input/{hash}.json, the job volume and the job's QCAD container are gone.
C10_NothingLeftBehind ==
    [][\A w \in workers :
        Returns(w) =>
            LET h == oHash[w]
            IN /\ ~ready'[h]
               /\ binF'[h] = "none"
               /\ jsonF'[h].st = "none"
               /\ ~vol'[h].exists
               /\ ~oQcad'[w]]_vars

\* C11: when the Uploader has finished with a job (process_done returned, or
\* cleanup_output ran), no output/{hash}.* file of the job is left.
C11_OutputCleaned ==
    [][(uPc \in {"process_done", "cleanup"} /\ uPc' = "idle")
        => (outResult'[uHash] = "none" /\ ~outThumb'[uHash])]_vars

\* C12: while status/{hash}.ready exists (and no process_job of the hash is
\* under way that is about to unlink it), input/{hash}.bin and
\* input/{hash}.json are completely written; a download that fails creates no
\* {hash}.ready and leaves the row in indexing.
C12_ReadyImpliesInputs ==
    /\ [](\A h \in Hashes :
            (ready[h] /\ \A w \in workers : oPc[w] = "idle" \/ oHash[w] # h)
                => (binF[h] = "full" /\ jsonF[h].st = "full"))
    /\ [][(fPc # "idle" /\ fPc' = "idle" /\ fPc # "ready")
            => (ready' = ready
                /\ db'[fJob.content_hash].processing_status = "indexing")]_vars

\* C13: the Uploader reads status/{hash}.done only when its content is
\* completely written.
C13_MarkerComplete ==
    [][\A h \in Hashes :
        (uPc = "idle" /\ uPc' \in {"process_done", "crashed_done"} /\ uHash' = h)
            => doneM[h].st = "full"]_vars

\* C14: at most 10 *.ready files exist at any time, and the Fetcher claims
\* only while fewer than 10 exist, one row per claim.
C14_Backpressure ==
    /\ [](Cardinality({h \in DOMAIN ready : ready[h]}) <= BACKPRESSURE)
    /\ [][claims' # claims
            => /\ Cardinality({h \in DOMAIN ready : ready[h]}) < BACKPRESSURE
               /\ Cardinality({h \in DOMAIN claims : claims'[h] # claims[h]}) = 1]_vars

C14_Witness ==
    /\ Cardinality({h \in DOMAIN ready : ready[h]}) = BACKPRESSURE
    /\ fPc = "idle"
    /\ \E h \in DOMAIN db : db[h].processing_status = "pending"

\* C15: at any instant at most one Processor container exists for a hash.
C15_OneProcessorPerHash == \A h \in Hashes : containers[h] <= 1

\* C16: a status/{hash}.ready never exists together with a job volume of the
\* hash left from an earlier process_job (one that is past its own
\* ready_file.unlink or has returned).
C16_VolumeGoneBeforeReady ==
    \A h \in Hashes :
        (ready[h] /\ vol[h].exists)
            => \E w \in workers :
                    /\ oHash[w] = h
                    /\ oPc[w] \in {"qcad", "spawn", "wait", "remove", "copy_out",
                                   "mark_done", "mark_done_write", "except",
                                   "unlink_ready"}

\* the characters C18 permits: 0x20-0x7E, newline, carriage return, tab,
\* 0x00A0-0xFFFF
Permitted(c) == (32 <= c /\ c <= 126) \/ c = 10 \/ c = 13 \/ c = 9 \/ (160 <= c /\ c <= 65535)

\* C17: the object sent to the blob store is the file a successful
\* sanitize_thumbnail saved for the job's thumbnail, and the extracted_text
\* written to the DB is sanitize_text of the text in result.json.
C17_OnlySanitizedLeaves ==
    /\ sBlob # NoImage
        => /\ sanitize_thumbnail(sThumb).ok
           /\ sBlob = sanitize_thumbnail(sThumb).out
           /\ ~sBlob.hidden
    /\ (sDb.written /\ sDb.extracted_text # NoText)
        => sDb.extracted_text = sanitize_text(sResult.extracted_text)
    /\ (sDb.written /\ sDb.thumbnail_path) => sBlob # NoImage

C17_Witness ==
    /\ sPc = "end"
    /\ sThumb.hidden
    /\ sBlob # NoImage
    /\ sDb.written
    /\ sDb.thumbnail_path
    /\ sDb.extracted_text # NoText
    /\ sDb.extracted_text # sResult.extracted_text

\* C18: the output of sanitize_text is at most MAX_TEXT_LENGTH long and
\* holds only permitted characters (no NUL, no other control character).
C18_SanitizedTextShape ==
    LET y == sanitize_text(sResult.extracted_text)
        Shape(t) == /\ TextLen(t) <= MAX_TEXT_LENGTH
                    /\ t.pad > 0 => Permitted(PadChar)
                    /\ \A i \in 1..Len(t.tail) : Permitted(t.tail[i])
    IN /\ y # NoText => Shape(y)
       /\ sText # NoText => Shape(sText)

C18_Witness ==
    /\ sPc = "db"
    /\ TextLen(sResult.extracted_text) > MAX_TEXT_LENGTH
    /\ sText # NoText
    /\ TextLen(sText) = MAX_TEXT_LENGTH - 1
    /\ \E i \in 1..Len(sResult.extracted_text.tail) :
            ~Permitted(sResult.extracted_text.tail[i])

\* C19: sanitize_text applied twice gives what it gives once, and a thumbnail
\* that sanitize_thumbnail produced is accepted again with the same pixels.
C19_Idempotent ==
    /\ LET x == sResult.extracted_text
       IN sanitize_text(sanitize_text(x)) = sanitize_text(x)
    /\ sSanitized # NoImage
        => LET again == sanitize_thumbnail(sSanitized)
           IN /\ again.ok
              /\ again.out.pixels = sSanitized.pixels

\* C20: a file that sanitize_thumbnail saved with success is at most 1 MB.
C20_SanitizedSize ==
    /\ sSanitized # NoImage => sSanitized.size <= MAX_THUMBNAIL_SIZE
    /\ sBlob # NoImage => sBlob.size <= MAX_THUMBNAIL_SIZE

\* C21: a thumbnail file of more than MAX_THUMBNAIL_SIZE bytes, which
\* sanitize_thumbnail rejects, is a failure of the job: process_done does not
\* record the job as done.
C21_OversizedNotDone ==
    (sResult.thumbnail_file /\ sThumb.format \notin {"none", "garbage"}
        /\ sThumb.size > MAX_THUMBNAIL_SIZE)
    => /\ ~sanitize_thumbnail(sThumb).ok
       /\ ~sDb.written
       /\ db[uHash].processing_status # "done"

\* C22: when process_done finds result.json missing or not parseable as JSON
\* it handles the job as failed (update_db_failed, or nothing when the DB
\* call itself fails) and returns to the loop of run: the Uploader does not
\* end.
C22_BadResultHandled ==
    [][(uPc = "process_done" /\ uPc' # uPc /\ outResult[uHash] \in {"none", "bad"})
        => /\ uPc' \in {"idle", "cleanup"}
           /\ \/ db' = db
              \/ db' = update_db_failed(db, uHash, MetaTryCount(uMeta) + 1)]_vars

\* C23: a job whose extension the Processor has a thumbnail and text branch
\* for (jpg, pdf) is never recorded as done with neither thumbnail_path nor
\* extracted_text, whatever fails on the way.
C23_DoneHasOutput ==
    \A h \in Hashes :
        (db[h].processing_status = "done" /\ pExt \in {"jpg", "pdf"})
        => (sDb.thumbnail_path \/ sDb.extracted_text # NoText)

\* C24: for a file of an unknown format from which no fallback gets a
\* thumbnail or a text, the Processor writes success = true with neither
\* output, and the Uploader's update_db_success records the job as done with
\* no thumbnail_path, no extracted_text and the try_count it was claimed with.
C24_UnknownFormatDone ==
    LET r == process_file(pExt, pSrc)
    IN (pExt \notin SupportedExtensions /\ r.thumb = NoImage /\ ~Truthy(r.text))
       => /\ pResult.st \in {"dict", "full"}
                => /\ pResult.success
                   /\ ~pResult.thumbnail_file
                   /\ pResult.extracted_text = None
                   /\ ~pResult.error
          /\ (pPc = "exited" /\ pExit = 0) => pResult.st = "full"
          /\ sPc \in {"db", "end"}
                => (~sPath /\ sText = NoText /\ sBlob = NoImage)
          /\ sDb.written
                => /\ sDb = [written |-> TRUE, thumbnail_path |-> FALSE,
                             extracted_text |-> NoText]
                   /\ db[uHash] = [processing_status |-> "done",
                                   try_count |-> MetaTryCount(uMeta)]

C24_Witness ==
    /\ pExt = "bin"
    /\ pSrc.text = Str(PadChar, 10) \o Str(27, 1)
    /\ pResult.st = "full"
    /\ sPc = "end"
    /\ sDb.written
    /\ ~sDb.thumbnail_path
    /\ sDb.extracted_text = NoText
    /\ db[uHash].processing_status = "done"
    /\ db[uHash].try_count = MAX_RETRIES - 1

\* C25: whether OCR is used depends only on eLen (length of the stripped
\* embedded text of page 1), oLen (length of the stripped OCR text) and q
\* (the OCR quality), and it is used exactly when eLen < 10 and oLen > 50, or
\* else oLen > 2 * eLen and oLen > 200, or else oLen > 100, q > 0.4,
\* eLen < 500 and q > 0.5.
C25_OcrCascade ==
    pSrc.ocr1 # NoOcr
    => LET page1_embedded == extract_text_from_pdf_page(pSrc.page1)
           eLen == IF page1_embedded = None THEN 0 ELSE len(strip(page1_embedded))
           oLen == len(strip(pSrc.ocr1.text))
           q == quality_of(pSrc.ocr1)
           cascade == IF eLen < 10 /\ oLen > 50 THEN TRUE
                      ELSE IF oLen > 2 * eLen /\ oLen > 200 THEN TRUE
                      ELSE IF oLen > 100 /\ q > 400 /\ eLen < 500 /\ q > 500 THEN TRUE
                      ELSE FALSE
       IN should_use_ocr(page1_embedded, pSrc.ocr1).use = cascade

C25_Witness ==
    /\ pPc = "write"
    /\ pSrc.ocr1 # NoOcr
    /\ should_use_ocr(extract_text_from_pdf_page(pSrc.page1), pSrc.ocr1)
        = [use |-> TRUE, reason |-> "ocr_better_for_short_embedded"]
    /\ len(strip(pSrc.ocr1.text)) = 101
    /\ pSrc.ocr1.quality = 501
    /\ pResult.extracted_text = Str(PadChar, 300)

\* C26: when OCR is chosen for a PDF, the final text is the OCR text, the
\* separator and the embedded text exactly when the embedded text has more
\* than 50 characters and the reason is not that the embedded text was empty,
\* and the OCR text alone otherwise; the text process_pdf_with_ocr returns,
\* and main puts into the result, is at most MAX_TEXT_LENGTH long.
C26_FinalText ==
    LET embedded_text == extract_text_from_pdf(pSrc.text)
        embedded == IF embedded_text = None THEN <<>> ELSE strip(embedded_text)
        ocr_text == strip(pSrc.ocr_all)
        d == should_use_ocr(extract_text_from_pdf_page(pSrc.page1), pSrc.ocr1)
        expected == IF len(embedded) > 50 /\ d.reason # "no_embedded_ocr_found_text"
                    THEN ocr_text \o Separator \o embedded
                    ELSE ocr_text
        returned == process_pdf_with_ocr(pSrc, pExt)
    IN /\ (pSrc.ocr1 # NoOcr /\ d.use)
            => /\ get_final_text(embedded_text, [text |-> pSrc.ocr_all, quality |-> -1],
                                 d.reason) = expected
               /\ returned = IF len(strip(slice(expected, MAX_TEXT_LENGTH))) > 0
                             THEN slice(expected, MAX_TEXT_LENGTH) ELSE None
       /\ len(returned) <= MAX_TEXT_LENGTH
       /\ pResult.st \in {"dict", "full"} => len(pResult.extracted_text) <= MAX_TEXT_LENGTH

C26_Witness ==
    /\ pPc = "exited"
    /\ pResult.st = "full"
    /\ pSrc.ocr1 # NoOcr
    /\ should_use_ocr(extract_text_from_pdf_page(pSrc.page1), pSrc.ocr1)
        = [use |-> TRUE, reason |-> "ocr_found_more"]
    /\ pSrc.text = Str(PadChar, 51) \o Str(10, 1)
    /\ pSrc.ocr_all = Str(PadChar, MAX_TEXT_LENGTH - 10)
    /\ pResult.extracted_text
        = Str(PadChar, MAX_TEXT_LENGTH - 10) \o <<[c |-> 10, n |-> 2], [c |-> 45, n |-> 3],
                                                  [c |-> 32, n |-> 1], [c |-> 101, n |-> 1],
                                                  [c |-> 109, n |-> 1], [c |-> 98, n |-> 1],
                                                  [c |-> 101, n |-> 1]>>

\* C27: on every branch of process_file the extracted_text that main writes
\* to result.json holds no NUL character and is at most MAX_TEXT_LENGTH long.
C27_ResultTextClean ==
    (pResult.st = "full" /\ pResult.extracted_text # None)
    => /\ ~HasNul(pResult.extracted_text)
       /\ len(pResult.extracted_text) <= MAX_TEXT_LENGTH

C29_CoverCrop ==
    gPc # "call"
    => /\ gBox.left >= 0 /\ gBox.top >= 0
       /\ gBox.right <= gImg.width /\ gBox.bottom <= gImg.height
       /\ gBox.left < gBox.right /\ gBox.top < gBox.bottom
       /\ gPc = "returned"
       /\ gOut = gTarget

C31_ErrorsSurvived ==
    \A c \in Components :
        /\ ePc[c] # "crashed"
        /\ (eLast[c].error = "db" => db_conn[c] = "none")

\* C32: when process_request returns for a request it picked up, the
\* request file is gone and it wrote exactly one of {id}.result (with text,
\* confidence, quality, word_count, char_count) and {id}.failed (at most 500
\* characters).
C32_OneOutcome ==
    /\ [][(kPc # "returned" /\ kPc' = "returned") =>
            /\ xRequest'[kId] = "none"
            /\ kWrote' \in {{"result"}, {"failed"}}
            /\ ("result" \in kWrote' /\ xResult'[kId].st # "none" =>
                    xResult'[kId] = [st |-> "full", keys |-> ResultKeys])
            /\ ("failed" \in kWrote' => xFailed'[kId] \in 0..500)]_vars
    /\ [](\A i \in Ids : xFailed[i] <= 500)

C32_Witness ==
    /\ kPc = "returned"
    /\ kWrote = {"failed"}
    /\ xFailed[kId] = 500
    /\ kErr = 3000
    /\ \E i \in Ids : xResult[i].st = "full"

\* C33: the CAD sidecar ends the handling of {id}.convert with exactly one
\* of {id}.done and {id}.failed created and {id}.convert removed, {id}.done
\* only with {id}.pdf present; convert_dwg_to_pdf returns a PDF path only
\* after it saw {id}.done, and None after {id}.failed or its timeout.
C33_ConvertProtocol ==
    /\ [][(wPc = "mark" /\ wPc' = "for") =>
            /\ wMade' \in {{"done"}, {"failed"}}
            /\ dConvert'[wId] = "none"
            /\ ("done" \in wMade' => dPdf'[wId])
            /\ ~(dDone'[wId] /\ dFailed'[wId])]_vars
    /\ [](\A i \in Ids :
            /\ (vRet[i] = "pdf" => vSaw[i] = "done")
            /\ (vSaw[i] \in {"failed", "timeout"} => vRet[i] = "none"))

C33_Witness ==
    /\ vRet[1] = "pdf"
    /\ vSaw[1] = "done"
    /\ vSaw[2] = "failed"
    /\ vPc[2] = "returned"

\* C38: after process_job returned, no slot file of the job ({id}.{ext},
\* {id}.convert, {id}.pdf, {id}.done, {id}.failed) is left in the CAD
\* exchange volume.
C38_ExchangeSwept ==
    jPc = "returned" =>
        \A i \in Ids :
            /\ ~dDwg[i]
            /\ dConvert[i] = "none"
            /\ ~dPdf[i]
            /\ ~dDone[i]
            /\ ~dFailed[i]

\* C34: every spawned Processor container has no network, a read-only root
\* file system, the memory and CPU caps, pids_limit 200, 512 MiB tmpfs on
\* /tmp, and the job volume, the CAD exchange and the OCR exchange mounted
\* read-write, so that its OCR request reaches the OCR sidecar.
C34_ContainerConfig ==
    nPc \in {"spawned", "requested"} =>
        /\ nKwargs.network_mode = "none"
        /\ nKwargs.read_only
        /\ nKwargs.mem_limit = nEnv.memory
        /\ nKwargs.nano_cpus = nEnv.cpus * 100000000
        /\ nKwargs.pids_limit = 200
        /\ [path |-> "/tmp", size |-> "512m", mode |-> "1777"] \in nKwargs.tmpfs
        /\ [volume |-> JobVolume(nJob), bind |-> "/work", mode |-> "rw"] \in nKwargs.volumes
        /\ \E m \in nKwargs.volumes : m.volume = DWG_EXCHANGE_VOLUME /\ m.mode = "rw"
        /\ \E m \in nKwargs.volumes : m.volume = OcrExchangeVolume /\ m.mode = "rw"
        /\ (nPc = "requested" => nOcr = "ocr_volume")

\* the content span of the array of the call: [first, last)
C35_Span == 
    LET a == Entries(hArr) IN
    IF any(a) THEN [first |-> first_of(a), last |-> last_of(a)]
    ELSE [first |-> 0, last |-> 0]

\* the maximal runs of no-content entries inside the content span, each as
\* [end, size]: end is the index of the content entry that follows the run
C35_Gaps ==
    LET a == Entries(hArr)
        s == C35_Span
    IN  {[end |-> e,
          size |-> e - 1 - (CHOOSE k \in s.first..(e - 1) :
                                a[k + 1] /\ \A j \in (k + 1)..(e - 1) : ~a[j + 1])] :
            e \in {i \in (s.first + 1)..(s.last - 1) : a[i + 1] /\ ~a[i]}}

\* the list returned names each index once, in increasing order
C35_Listed(S) ==
    /\ {hSplits[k] : k \in 1..Len(hSplits)} = S
    /\ \A k \in 1..(Len(hSplits) - 1) : hSplits[k] < hSplits[k + 1]

\* C35 as stated: for every array find_gap_splits returns exactly one split
\* point for each maximal run of no-content entries inside the content span
\* whose length is at least 15% of the span, whatever the span.
C35_SplitPerGap ==
    hPc = "returned" =>
        C35_Listed({g.end : g \in {x \in C35_Gaps :
                        x.size * 100 >= 15 * (C35_Span.last - C35_Span.first)}})

\* C35 amended: with t = int(0.15 * span), find_gap_splits returns no split
\* point when t < 10, and otherwise exactly one split point for each maximal
\* run of no-content entries inside the content span of length at least t.
C35_SplitPerGapFloor ==
    hPc = "returned" =>
        LET t == (15 * (C35_Span.last - C35_Span.first)) \div 100 IN
        C35_Listed(IF t < 10 THEN {} ELSE {g.end : g \in {x \in C35_Gaps : x.size >= t}})

C35_Witness ==
    /\ hPc = "returned"
    /\ Len(hSplits) = 2
    /\ C35_Span.last - C35_Span.first > 100

\* C36: update_db_success leaves try_count as it is and keeps the stored
\* thumbnail_path, thumbnail_generated_at and extracted_text where the new
\* value is null; update_db_failed leaves thumbnail_path,
\* thumbnail_generated_at and extracted_text as they are; both change no row
\* but the one whose content_hash matches.
C36_UpdateFrame ==
    [][tNow' # tNow =>
        /\ \A h \in RowKeys : h # tLast'.content_hash => tRows'[h] = tRows[h]
        /\ \A h \in RowKeys :
            (h = tLast'.content_hash /\ tLast'.fn = "update_db_success") =>
                /\ tRows'[h].try_count = tRows[h].try_count
                /\ (tLast'.thumbnail_path = NULL =>
                        /\ tRows'[h].thumbnail_path = tRows[h].thumbnail_path
                        /\ tRows'[h].thumbnail_generated_at = tRows[h].thumbnail_generated_at)
                /\ (tLast'.extracted_text = NULL =>
                        tRows'[h].extracted_text = tRows[h].extracted_text)
        /\ \A h \in RowKeys :
            (h = tLast'.content_hash /\ tLast'.fn = "update_db_failed") =>
                /\ tRows'[h].thumbnail_path = tRows[h].thumbnail_path
                /\ tRows'[h].thumbnail_generated_at = tRows[h].thumbnail_generated_at
                /\ tRows'[h].extracted_text = tRows[h].extracted_text]_vars

C36_Witness ==
    /\ tLast.fn = "update_db_success"
    /\ tLast.content_hash = 1
    /\ tLast.thumbnail_path = NULL
    /\ tLast.extracted_text = NULL
    /\ tRows[1].processing_status = "done"
    /\ tRows[1].thumbnail_path = "old.png"
    /\ tRows[1].extracted_text = "old text"
    /\ tRows[1].try_count = 2

\* C37: the end-of-job cleanup of process_job removes only the input files
\* of the claim it processed: a {hash}.bin or {hash}.json that the Fetcher
\* has written for its current claim of the row (re-queued by the Uploader
\* and claimed again while the previous process_job is still in its finally
\* block), and for which it has not yet touched {hash}.ready, is never
\* removed
C37_FreshInputKept ==
    [][\A h \in Hashes :
          fJob.content_hash = h =>
              /\ (fPc \in {"meta", "meta_write", "ready"} /\ binF[h] = "full"
                      => binF'[h] = "full")
              /\ (fPc = "ready" /\ jsonF[h].st = "full" => jsonF'[h].st = "full")]_vars

\* C39: a shutdown never abandons work already taken.  With its flag
\* cleared, a Fetcher that holds the job claim_job returned always calls
\* download_file for it, and an Uploader that has unlinked a .done or .failed
\* marker always calls process_done / process_failed for it, before the
\* loop is left
C39_TakenWorkRuns ==
    /\ (lPc["fetcher"] = "claimed" /\ ~running["fetcher"]) ~> (lPc["fetcher"] = "item")
    /\ (lPc["uploader"] = "taken" /\ ~running["uploader"]) ~> (lPc["uploader"] = "item")
    /\ (lPc["uploader"] = "taken2" /\ ~running["uploader"]) ~> (lPc["uploader"] = "item2")

\* C40: every output/{hash}.result.json, {hash}.thumbnail.png and {hash}.log
\* was written by the Processor run on the input of that same hash, with one
\* Orchestrator worker or with several
C40_OwnOutput ==
    \A h \in OutHashes, f \in OutFiles : zOut[h][f] \in {0, h}

====
